---------------------------- MODULE Spec2Model ----------------------------
(***************************************************************************)
(* The C++ constructor generator of cxx-qt-gen                             *)
(* (crates/cxx-qt-gen/src/generator/cpp/constructor.rs) and the            *)
(* construction sequence the emitted constructor pair encodes.             *)
(*                                                                         *)
(* Generated text is a sequence of tokens (strings); a line break of the   *)
(* formatdoc! templates is the token "\n" and indentation is left out.  A  *)
(* name built by format!, such as routeArguments{index}, is one token      *)
(* built by string concatenation.                                          *)
(***************************************************************************)
EXTENDS Naturals, Sequences, FiniteSets, TLC

(***************************************************************************)
(* Bounds of the explored inputs.                                          *)
(***************************************************************************)
\* longest constructor list
MaxConstructors == 2
\* most syn::Type entries in all the argument lists of one constructor list
MaxTypes == 2
\* longest member_initializers list
MaxInitializers == 2
\* most parameters of a method signature
MaxParams == 3
\* most objects of one parser
MaxObjects == 2
\* most calls of one Qt tool method on one QtBuild
MaxCalls == 2

(***************************************************************************)
(* Token-sequence helpers.                                                 *)
(***************************************************************************)
RECURSIVE Flatten(_)
Flatten(seqs) ==
    IF seqs = <<>> THEN <<>> ELSE Head(seqs) \o Flatten(Tail(seqs))

\* [T]::join(sep) of the standard library: sep between the items, none around
RECURSIVE Join(_, _)
Join(seqs, sep) ==
    IF seqs = <<>> THEN <<>>
    ELSE IF Len(seqs) = 1 THEN Head(seqs)
    ELSE Head(seqs) \o sep \o Join(Tail(seqs), sep)

Positions(toks, tok) == {p \in 1..Len(toks) : toks[p] = tok}

Min(S) == CHOOSE x \in S : \A y \in S : x <= y

\* position of the first occurrence of tok, 0 when there is none
IndexOf(toks, tok) ==
    IF Positions(toks, tok) = {} THEN 0 ELSE Min(Positions(toks, tok))

\* the tokens after position p
After(toks, p) == SubSeq(toks, p + 1, Len(toks))

\* the elements of a sequence
Elements(seq) == {seq[k] : k \in 1..Len(seq)}

(***************************************************************************)
(* The inputs of constructor::generate.                                    *)
(***************************************************************************)
\* syn::Type values used as arguments
Types == {"i32", "*mut QObject", "T"}

\* the types the constructor declaration routes to the base class, to new
\* and to initialize: the generator never resolves them
RoutedTypes == {"T"}

\* GeneratedCppQObject: the fields the constructor generator reads
QObjects ==
    { [ident |-> "MyObject", namespace_internals |-> "rust",
       base_class |-> "BaseClass"],
      [ident |-> "Other", namespace_internals |-> "cxx_qt_other",
       base_class |-> "QObject"] }

\* ParsedCxxMappings: the table the type resolver consults
CxxMappings ==
    { [ty \in {} |-> ""], [ty \in {"T"} |-> "::ns::T"] }

\* extra member initializer snippets
InitializerSnippets == <<"member1(1)", "member2{ 2 }", "initializer", "m_extra()">>

\* the snippet list of tests::constructor_with_all_arguments and
\* tests::multiple_constructors
ExampleInitializers == <<"initializer">>

MemberInitializers ==
    { SubSeq(InitializerSnippets, 1, n) : n \in 0..MaxInitializers }
    \cup {ExampleInitializers}

RECURSIVE SeqsOfLen(_, _)
SeqsOfLen(S, n) ==
    IF n = 0 THEN {<<>>}
    ELSE {<<x>> \o s : x \in S, s \in SeqsOfLen(S, n - 1)}

\* parser::constructor::Constructor values holding exactly n types
ConstructorsOfSize(n) ==
    UNION { { [arguments |-> a, base_arguments |-> b,
               new_arguments |-> nw, initialize_arguments |-> ini] :
               a \in SeqsOfLen(Types, la), b \in SeqsOfLen(RoutedTypes, lb),
               nw \in SeqsOfLen(RoutedTypes, ln),
               ini \in SeqsOfLen(RoutedTypes, n - la - lb - ln) } :
            <<la, lb, ln>> \in
                {t \in (0..n) \X (0..n) \X (0..n) : t[1] + t[2] + t[3] <= n} }

\* constructor lists of length n holding at most budget types
RECURSIVE ConstructorLists(_, _)
ConstructorLists(n, budget) ==
    IF n = 0 THEN {<<>>}
    ELSE UNION { { <<c>> \o rest : c \in ConstructorsOfSize(s),
                                   rest \in ConstructorLists(n - 1, budget - s) } :
                 s \in 0..budget }

\* tests::mock_constructor
mock_constructor ==
    [arguments |-> <<>>, base_arguments |-> <<>>, new_arguments |-> <<>>,
     initialize_arguments |-> <<>>]

\* the constructor list of tests::constructor_without_base_arguments
ExampleWithoutBaseArguments ==
    << [mock_constructor EXCEPT !.arguments = <<"i32", "*mut QObject">>] >>

\* the constructor list of tests::constructor_with_all_arguments
ExampleAllArguments ==
    << [arguments |-> <<"i8", "i16">>, new_arguments |-> <<"i16", "i32">>,
        initialize_arguments |-> <<"i32", "i64">>,
        base_arguments |-> <<"i64", "*mut QObject">>] >>

\* the constructor list of tests::multiple_constructors
ExampleMultipleConstructors ==
    << mock_constructor,
       [mock_constructor EXCEPT !.arguments = <<"*mut QObject">>,
                                !.base_arguments = <<"*mut QObject">>] >>

ExampleConstructors ==
    {ExampleWithoutBaseArguments, ExampleAllArguments, ExampleMultipleConstructors}

ConstructorInputs ==
    UNION { ConstructorLists(n, MaxTypes) : n \in 0..MaxConstructors }
    \cup ExampleConstructors

(***************************************************************************)
(* Result values.                                                          *)
(***************************************************************************)
Ok(v) == [ok |-> TRUE, val |-> v]
Err(e) == [ok |-> FALSE, err |-> e]

\* CppFragment::Pair
Pair(header, source) == [header |-> header, source |-> source]

\* GeneratedCppQObjectBlocks::default()
DefaultBlocks ==
    [forward_declares |-> <<>>, members |-> <<>>, metaobjects |-> <<>>,
     methods |-> <<>>, private_methods |-> <<>>, deconstructors |-> <<>>]

(***************************************************************************)
(* The type resolver.                                                      *)
(***************************************************************************)
BuiltinCppTypes ==
    [ty \in {"i8", "i16", "i32", "*mut QObject"} |->
        CASE ty = "i8" -> "::std::int8_t"
          [] ty = "i16" -> "::std::int16_t"
          [] ty = "i32" -> "::std::int32_t"
          [] OTHER -> "QObject*"]

syn_type_to_cpp_type(ty, cxx_mappings) ==
    IF ty \in DOMAIN BuiltinCppTypes THEN Ok(BuiltinCppTypes[ty])
    ELSE IF ty \in DOMAIN cxx_mappings THEN Ok(cxx_mappings[ty])
    ELSE Err(ty)

(***************************************************************************)
(* constructor.rs                                                          *)
(***************************************************************************)
\* default_constructor with the extra initializers left out of the template
default_constructor_no_initializers(qobject, initializers) ==
    [DefaultBlocks EXCEPT !.methods = <<
        Pair(<<"explicit", qobject.ident, "(", "QObject*", "parent", "=",
               "nullptr", ")", ";">>,
             <<qobject.ident, "::", qobject.ident, "(", "QObject*", "parent", ")", "\n",
               ":", qobject.base_class, "(", "parent", ")", "\n",
               ",", "m_rustObj", "(", "::", qobject.namespace_internals, "::",
               "createRs", "(", ")", ")", "\n",
               "{", "}", "\n">>) >>]

default_constructor(qobject, initializers) ==
    [DefaultBlocks EXCEPT !.methods = <<
        Pair(<<"explicit", qobject.ident, "(", "QObject*", "parent", "=",
               "nullptr", ")", ";">>,
             <<qobject.ident, "::", qobject.ident, "(", "QObject*", "parent", ")", "\n",
               ":", qobject.base_class, "(", "parent", ")", "\n",
               ",", "m_rustObj", "(", "::", qobject.namespace_internals, "::",
               "createRs", "(", ")", ")">> \o initializers \o <<"\n",
               "{", "}", "\n">>) >>]

\* argument_names counting from 1
argument_names_one_based(arguments) ==
    [index \in 1..Len(arguments) |-> "arg" \o ToString(index)]

argument_names(arguments) ==
    [index \in 1..Len(arguments) |-> "arg" \o ToString(index - 1)]

\* collect::<Result<Vec<_>>>(): the first error in iteration order, or all values
RECURSIVE CollectResults(_)
CollectResults(results) ==
    IF results = <<>> THEN Ok(<<>>)
    ELSE IF ~Head(results).ok THEN Head(results)
    ELSE LET rest == CollectResults(Tail(results))
         IN  IF rest.ok THEN Ok(<<Head(results).val>> \o rest.val) ELSE rest

\* expand_arguments returning the error of the last argument that fails
expand_arguments_last_error(arguments, cxx_mappings) ==
    LET names == argument_names(arguments)
        mapped == [k \in 1..Len(arguments) |->
                     LET ty == syn_type_to_cpp_type(arguments[k], cxx_mappings)
                     IN  IF ty.ok THEN Ok(<<ty.val, names[k]>>) ELSE ty]
        errors == SelectSeq(mapped, LAMBDA r : ~r.ok)
    IN  IF errors # <<>> THEN errors[Len(errors)]
        ELSE Ok(Join([k \in 1..Len(mapped) |-> mapped[k].val], <<",">>))

expand_arguments(arguments, cxx_mappings) ==
    LET names == argument_names(arguments)
        mapped == [k \in 1..Len(arguments) |->
                     LET ty == syn_type_to_cpp_type(arguments[k], cxx_mappings)
                     IN  IF ty.ok THEN Ok(<<ty.val, names[k]>>) ELSE ty]
        collected == CollectResults(mapped)
    IN  IF collected.ok THEN Ok(Join(collected.val, <<",">>)) ELSE collected

\* lines 65-69: the text appended to every initializer list
Initializers(member_initializers) ==
    Flatten([k \in 1..Len(member_initializers) |->
                <<"\n", ",", member_initializers[k]>>])

\* PublicConstructor passing the arguments on without ::std::move
PublicConstructor_no_move(qobject, index, argument_list, constructor_argument_names) ==
    LET class_name == qobject.ident
        copy_arguments ==
            Join([k \in 1..Len(constructor_argument_names) |->
                    <<constructor_argument_names[k]>>], <<",">>)
    IN  Pair(<<"explicit", class_name, "(">> \o argument_list \o <<")", ";">>,
             <<class_name, "::", class_name, "(">> \o argument_list \o <<")", "\n",
               ":", class_name, "(", "::", qobject.namespace_internals, "::",
               "routeArguments" \o ToString(index), "(">> \o copy_arguments
               \o <<")", ")", "\n",
               "{", "}", "\n">>)

\* PublicConstructor naming the entry point after the first argument type too
PublicConstructor_typed_name(qobject, index, argument_list, constructor_argument_names) ==
    LET class_name == qobject.ident
        move_arguments ==
            Join([k \in 1..Len(constructor_argument_names) |->
                    <<"::std::move", "(", constructor_argument_names[k], ")">>],
                 <<",">>)
        suffix == IF argument_list = <<>> THEN "" ELSE "_" \o Head(argument_list)
    IN  Pair(<<"explicit", class_name, "(">> \o argument_list \o <<")", ";">>,
             <<class_name, "::", class_name, "(">> \o argument_list \o <<")", "\n",
               ":", class_name, "(", "::", qobject.namespace_internals, "::",
               "routeArguments" \o ToString(index) \o suffix, "(">> \o move_arguments
               \o <<")", ")", "\n",
               "{", "}", "\n">>)

\* lines 84-94: the public constructor of the constructor at `index`
PublicConstructor(qobject, index, argument_list, constructor_argument_names) ==
    LET class_name == qobject.ident
        move_arguments ==
            Join([k \in 1..Len(constructor_argument_names) |->
                    <<"::std::move", "(", constructor_argument_names[k], ")">>],
                 <<",">>)
    IN  Pair(<<"explicit", class_name, "(">> \o argument_list \o <<")", ";">>,
             <<class_name, "::", class_name, "(">> \o argument_list \o <<")", "\n",
               ":", class_name, "(", "::", qobject.namespace_internals, "::",
               "routeArguments" \o ToString(index), "(">> \o move_arguments
               \o <<")", ")", "\n",
               "{", "}", "\n">>)

\* BaseArgs forwarding the base arguments without ::std::move
BaseArgs_copy(constructor) ==
    IF constructor.base_arguments # <<>>
    THEN LET names == argument_names(constructor.base_arguments)
         IN  Join([k \in 1..Len(names) |-> <<"args.base." \o names[k]>>], <<",">>)
    ELSE <<>>

\* BaseArgs forwarding the base arguments last to first
BaseArgs_reversed(constructor) ==
    IF constructor.base_arguments # <<>>
    THEN LET names == argument_names(constructor.base_arguments)
         IN  Join([k \in 1..Len(names) |->
                     <<"::std::move", "(",
                       "args.base." \o names[Len(names) + 1 - k], ")">>],
                  <<",">>)
    ELSE <<>>

\* lines 96-104
BaseArgs(constructor) ==
    IF constructor.base_arguments # <<>>
    THEN LET names == argument_names(constructor.base_arguments)
         IN  Join([k \in 1..Len(names) |->
                     <<"::std::move", "(", "args.base." \o names[k], ")">>],
                  <<",">>)
    ELSE <<>>

\* PrivateConstructor counting the entry points from 1
PrivateConstructor_one_based(qobject, index, base_args, initializers) ==
    LET class_name == qobject.ident
        namespace_internals == qobject.namespace_internals
        arguments_type == "CxxQtConstructorArguments" \o ToString(index + 1)
    IN  Pair(<<"explicit", class_name, "(", "::", namespace_internals, "::",
               arguments_type, "&&", "args", ")", ";">>,
             <<class_name, "::", class_name, "(", "::", namespace_internals, "::",
               arguments_type, "&&", "args", ")", "\n",
               ":", qobject.base_class, "(">> \o base_args \o <<")", "\n",
               ",", "m_rustObj", "(", "::", namespace_internals, "::",
               "newRs" \o ToString(index + 1), "(", "::std::move", "(", "args.new_",
               ")", ")", ")">> \o initializers \o <<"\n",
               "{", "\n",
               "::", namespace_internals, "::", "initialize" \o ToString(index + 1),
               "(", "*this", ",", "::std::move", "(", "args.initialize", ")", ")",
               ";", "\n",
               "}", "\n">>)

\* PrivateConstructor with the extra initializers ahead of the m_rustObj slot
PrivateConstructor_initializers_first(qobject, index, base_args, initializers) ==
    LET class_name == qobject.ident
        namespace_internals == qobject.namespace_internals
        arguments_type == "CxxQtConstructorArguments" \o ToString(index)
    IN  Pair(<<"explicit", class_name, "(", "::", namespace_internals, "::",
               arguments_type, "&&", "args", ")", ";">>,
             <<class_name, "::", class_name, "(", "::", namespace_internals, "::",
               arguments_type, "&&", "args", ")", "\n",
               ":", qobject.base_class, "(">> \o base_args \o <<")">>
               \o initializers \o <<"\n",
               ",", "m_rustObj", "(", "::", namespace_internals, "::",
               "newRs" \o ToString(index), "(", "::std::move", "(", "args.new_",
               ")", ")", ")", "\n",
               "{", "\n",
               "::", namespace_internals, "::", "initialize" \o ToString(index),
               "(", "*this", ",", "::std::move", "(", "args.initialize", ")", ")",
               ";", "\n",
               "}", "\n">>)

\* PrivateConstructor giving the extra initializers to the first constructor only
PrivateConstructor_first_only(qobject, index, base_args, initializers) ==
    LET class_name == qobject.ident
        namespace_internals == qobject.namespace_internals
        arguments_type == "CxxQtConstructorArguments" \o ToString(index)
    IN  Pair(<<"explicit", class_name, "(", "::", namespace_internals, "::",
               arguments_type, "&&", "args", ")", ";">>,
             <<class_name, "::", class_name, "(", "::", namespace_internals, "::",
               arguments_type, "&&", "args", ")", "\n",
               ":", qobject.base_class, "(">> \o base_args \o <<")", "\n",
               ",", "m_rustObj", "(", "::", namespace_internals, "::",
               "newRs" \o ToString(index), "(", "::std::move", "(", "args.new_",
               ")", ")", ")">> \o (IF index = 0 THEN initializers ELSE <<>>) \o <<"\n",
               "{", "\n",
               "::", namespace_internals, "::", "initialize" \o ToString(index),
               "(", "*this", ",", "::std::move", "(", "args.initialize", ")", ")",
               ";", "\n",
               "}", "\n">>)

\* lines 112-126: the private constructor of the constructor at `index`
PrivateConstructor(qobject, index, base_args, initializers) ==
    LET class_name == qobject.ident
        namespace_internals == qobject.namespace_internals
        arguments_type == "CxxQtConstructorArguments" \o ToString(index)
    IN  Pair(<<"explicit", class_name, "(", "::", namespace_internals, "::",
               arguments_type, "&&", "args", ")", ";">>,
             <<class_name, "::", class_name, "(", "::", namespace_internals, "::",
               arguments_type, "&&", "args", ")", "\n",
               ":", qobject.base_class, "(">> \o base_args \o <<")", "\n",
               ",", "m_rustObj", "(", "::", namespace_internals, "::",
               "newRs" \o ToString(index), "(", "::std::move", "(", "args.new_",
               ")", ")", ")">> \o initializers \o <<"\n",
               "{", "\n",
               "::", namespace_internals, "::", "initialize" \o ToString(index),
               "(", "*this", ",", "::std::move", "(", "args.initialize", ")", ")",
               ";", "\n",
               "}", "\n">>)

\* GenerateLoop pushing the private constructor to the public bucket as well
RECURSIVE GenerateLoop_all_public(_, _, _, _, _, _)
GenerateLoop_all_public(qobject, constructors, initializers, cxx_mappings, index, generated) ==
    IF index >= Len(constructors) THEN Ok(generated)
    ELSE LET constructor == constructors[index + 1]
             argument_list == expand_arguments(constructor.arguments, cxx_mappings)
             constructor_argument_names == argument_names(constructor.arguments)
         IN  IF ~argument_list.ok THEN argument_list
             ELSE GenerateLoop_all_public(qobject, constructors, initializers,
                    cxx_mappings, index + 1,
                    [generated EXCEPT
                       !.methods = @ \o
                           <<PublicConstructor(qobject, index, argument_list.val,
                                               constructor_argument_names),
                             PrivateConstructor(qobject, index, BaseArgs(constructor),
                                                initializers)>>])

\* GenerateLoop skipping a constructor whose arguments do not resolve
RECURSIVE GenerateLoop_best_effort(_, _, _, _, _, _)
GenerateLoop_best_effort(qobject, constructors, initializers, cxx_mappings, index, generated) ==
    IF index >= Len(constructors) THEN Ok(generated)
    ELSE LET constructor == constructors[index + 1]
             argument_list == expand_arguments(constructor.arguments, cxx_mappings)
             constructor_argument_names == argument_names(constructor.arguments)
         IN  IF ~argument_list.ok
             THEN GenerateLoop_best_effort(qobject, constructors, initializers,
                    cxx_mappings, index + 1, generated)
             ELSE GenerateLoop_best_effort(qobject, constructors, initializers,
                    cxx_mappings, index + 1,
                    [generated EXCEPT
                       !.methods = Append(@,
                           PublicConstructor(qobject, index, argument_list.val,
                                             constructor_argument_names)),
                       !.private_methods = Append(@,
                           PrivateConstructor(qobject, index, BaseArgs(constructor),
                                              initializers))])

\* GenerateLoop declaring the routed aggregate as a member as well
RECURSIVE GenerateLoop_with_member(_, _, _, _, _, _)
GenerateLoop_with_member(qobject, constructors, initializers, cxx_mappings, index, generated) ==
    IF index >= Len(constructors) THEN Ok(generated)
    ELSE LET constructor == constructors[index + 1]
             argument_list == expand_arguments(constructor.arguments, cxx_mappings)
             constructor_argument_names == argument_names(constructor.arguments)
         IN  IF ~argument_list.ok THEN argument_list
             ELSE GenerateLoop_with_member(qobject, constructors, initializers,
                    cxx_mappings, index + 1,
                    [generated EXCEPT
                       !.methods = Append(@,
                           PublicConstructor(qobject, index, argument_list.val,
                                             constructor_argument_names)),
                       !.private_methods = Append(@,
                           PrivateConstructor(qobject, index, BaseArgs(constructor),
                                              initializers)),
                       !.members = Append(@,
                           <<"CxxQtConstructorArguments" \o ToString(index),
                             "m_args", ";">>)])

\* GenerateLoop resolving the base arguments as well
RECURSIVE GenerateLoop_resolves_base(_, _, _, _, _, _)
GenerateLoop_resolves_base(qobject, constructors, initializers, cxx_mappings, index, generated) ==
    IF index >= Len(constructors) THEN Ok(generated)
    ELSE LET constructor == constructors[index + 1]
             argument_list == expand_arguments(constructor.arguments, cxx_mappings)
             base_list == expand_arguments(constructor.base_arguments, cxx_mappings)
             constructor_argument_names == argument_names(constructor.arguments)
         IN  IF ~argument_list.ok THEN argument_list
             ELSE IF ~base_list.ok THEN base_list
             ELSE GenerateLoop_resolves_base(qobject, constructors, initializers,
                    cxx_mappings, index + 1,
                    [generated EXCEPT
                       !.methods = Append(@,
                           PublicConstructor(qobject, index, argument_list.val,
                                             constructor_argument_names)),
                       !.private_methods = Append(@,
                           PrivateConstructor(qobject, index, BaseArgs(constructor),
                                              initializers))])

\* lines 80-127: the loop from the constructor at `index` (0-based) on
RECURSIVE GenerateLoop(_, _, _, _, _, _)
GenerateLoop(qobject, constructors, initializers, cxx_mappings, index, generated) ==
    IF index >= Len(constructors) THEN Ok(generated)
    ELSE LET constructor == constructors[index + 1]
             argument_list == expand_arguments(constructor.arguments, cxx_mappings)
             constructor_argument_names == argument_names(constructor.arguments)
         IN  IF ~argument_list.ok THEN argument_list
             ELSE GenerateLoop(qobject, constructors, initializers, cxx_mappings,
                    index + 1,
                    [generated EXCEPT
                       !.methods = Append(@,
                           PublicConstructor(qobject, index, argument_list.val,
                                             constructor_argument_names)),
                       !.private_methods = Append(@,
                           PrivateConstructor(qobject, index, BaseArgs(constructor),
                                              initializers))])

\* generate keeping the default constructor beside the declared ones
generate_default_first(qobject, constructors, member_initializers, cxx_mappings) ==
    LET initializers == Initializers(member_initializers)
    IN  GenerateLoop(qobject, constructors, initializers, cxx_mappings,
                     0, default_constructor(qobject, initializers))

\* generate resolving the base class of the default constructor
generate_resolves_base_class(qobject, constructors, member_initializers, cxx_mappings) ==
    LET initializers == Initializers(member_initializers)
        base == syn_type_to_cpp_type(qobject.base_class, cxx_mappings)
    IN  IF constructors = <<>>
        THEN IF base.ok THEN Ok(default_constructor(qobject, initializers)) ELSE base
        ELSE GenerateLoop(qobject, constructors, initializers, cxx_mappings,
                          0, DefaultBlocks)

generate(qobject, constructors, member_initializers, cxx_mappings) ==
    LET initializers == Initializers(member_initializers)
    IN  IF constructors = <<>>
        THEN Ok(default_constructor(qobject, initializers))
        ELSE GenerateLoop(qobject, constructors, initializers, cxx_mappings,
                          0, DefaultBlocks)

(***************************************************************************)
(* The construction sequence a generated constructor encodes.  The body    *)
(* of a constructor definition (what follows the ":" that opens its        *)
(* initializer list) is evaluated left to right, the arguments of a call   *)
(* before the call itself:                                                 *)
(*   move  an operand wrapped in ::std::move is moved from                 *)
(*   read  an operand used as it is                                        *)
(*   call  a function, a base-class or delegated constructor, or the       *)
(*         initializer of the m_rustObj slot, after its arguments          *)
(*   init  an extra member initializer snippet                             *)
(***************************************************************************)
Event(op, name) == [op |-> op, name |-> name]

Punctuation == {"\n", ",", ":", "::", "{", "}", ";", "(", ")"}

RECURSIVE Evaluate(_, _, _)
Evaluate(toks, p, stack) ==
    IF p > Len(toks) THEN <<>>
    ELSE LET t == toks[p]
             next == IF p < Len(toks) THEN toks[p + 1] ELSE ""
         IN  IF t = "::std::move" /\ next = "("
             THEN <<Event("move", toks[p + 2])>> \o Evaluate(toks, p + 4, stack)
             ELSE IF t = ")"
             THEN <<Event("call", Head(stack))>> \o Evaluate(toks, p + 1, Tail(stack))
             ELSE IF t \in Punctuation \/ next = "::"
             THEN Evaluate(toks, p + 1, stack)
             ELSE IF next = "("
             THEN Evaluate(toks, p + 2, <<t>> \o stack)
             ELSE IF stack = <<>>
             THEN <<Event("init", t)>> \o Evaluate(toks, p + 1, stack)
             ELSE <<Event("read", t)>> \o Evaluate(toks, p + 1, stack)

\* the events of one constructor definition
BodyEvents(source) == Evaluate(After(source, IndexOf(source, ":")), 1, <<>>)

\* the events of calling public constructor i of the generated blocks: the
\* public constructor, then the private one it delegates to (when there is one)
ConstructionEvents(blocks, i) ==
    BodyEvents(blocks.methods[i].source)
    \o (IF i <= Len(blocks.private_methods)
        THEN BodyEvents(blocks.private_methods[i].source) ELSE <<>>)

(***************************************************************************)
(* mod.rs: get_cpp_params.  A signature is the sequence of its inputs      *)
(* (syn::FnArg): a receiver such as `&self`, or a typed parameter with its *)
(* pattern, the name the pattern binds (when it is Pat::Ident) and its     *)
(* type.                                                                   *)
(***************************************************************************)
Receiver == [kind |-> "Receiver"]

Typed(pat, ident, ty) == [kind |-> "Typed", pat |-> pat, ident |-> ident, ty |-> ty]

\* the names a parameter pattern binds
Idents == {"self", "x", "y"}

\* the parameter types: i32 always resolves, T only when the table maps it
ParamTypes == {"i32", "T"}

FnArgs ==
    {Receiver}
    \cup {Typed("Ident", ident, ty) : ident \in Idents, ty \in ParamTypes}
    \cup {Typed("Tuple", "", ty) : ty \in ParamTypes}

\* the signatures of at most MaxParams inputs; the parser accepts a
\* receiver (FnArg::Receiver) as the first input only
Signatures ==
    { sig \in UNION { SeqsOfLen(FnArgs, n) : n \in 0..MaxParams } :
        \A k \in 2..Len(sig) : sig[k] # Receiver }

\* Option<T>
None == [some |-> FALSE]
Some(v) == [some |-> TRUE, v |-> v]

\* fragment::CppNamedType
CppNamedType(ident, ty) == [ident |-> ident, ty |-> ty]

UnknownPattern == "Unknown pattern for type"

\* ParamResult keeping a typed parameter named self
ParamResult_keeps_self(input, type_names) ==
    IF input.kind = "Typed"
    THEN IF input.pat # "Ident" THEN Err(UnknownPattern)
         ELSE LET ty == syn_type_to_cpp_type(input.ty, type_names)
              IN  IF ty.ok THEN Ok(Some(CppNamedType(input.ident, ty.val))) ELSE ty
    ELSE Ok(None)

\* ParamResult passing over a pattern that is not a single name
ParamResult_skips_patterns(input, type_names) ==
    IF input.kind = "Typed"
    THEN IF input.pat # "Ident" \/ input.ident = "self" THEN Ok(None)
         ELSE LET ty == syn_type_to_cpp_type(input.ty, type_names)
              IN  IF ty.ok THEN Ok(Some(CppNamedType(input.ident, ty.val))) ELSE ty
    ELSE Ok(None)

\* ParamResult naming every parameter arg
ParamResult_renamed(input, type_names) ==
    IF input.kind = "Typed"
    THEN IF input.pat # "Ident" THEN Err(UnknownPattern)
         ELSE IF input.ident = "self" THEN Ok(None)
         ELSE LET ty == syn_type_to_cpp_type(input.ty, type_names)
              IN  IF ty.ok THEN Ok(Some(CppNamedType("arg", ty.val))) ELSE ty
    ELSE Ok(None)

\* ParamResult resolving the type before it looks at the name
ParamResult_resolves_first(input, type_names) ==
    IF input.kind = "Typed"
    THEN IF input.pat # "Ident" THEN Err(UnknownPattern)
         ELSE LET ty == syn_type_to_cpp_type(input.ty, type_names)
              IN  IF ~ty.ok THEN ty
                  ELSE IF input.ident = "self" THEN Ok(None)
                  ELSE Ok(Some(CppNamedType(input.ident, ty.val)))
    ELSE Ok(None)

\* lines 90-112: the closure mapped over the inputs
ParamResult(input, type_names) ==
    IF input.kind = "Typed"
    THEN IF input.pat # "Ident" THEN Err(UnknownPattern)
         ELSE IF input.ident = "self" THEN Ok(None)
         ELSE LET ty == syn_type_to_cpp_type(input.ty, type_names)
              IN  IF ty.ok THEN Ok(Some(CppNamedType(input.ident, ty.val))) ELSE ty
    ELSE Ok(None)

\* line 113: filter_map keeps an error, unwraps Some and drops None
RECURSIVE FilterMap(_)
FilterMap(results) ==
    IF results = <<>> THEN <<>>
    ELSE LET r == Head(results)
         IN  IF ~r.ok THEN <<r>> \o FilterMap(Tail(results))
             ELSE IF r.val.some THEN <<Ok(r.val.v)>> \o FilterMap(Tail(results))
             ELSE FilterMap(Tail(results))

\* lines 85-115
get_cpp_params(method, type_names) ==
    CollectResults(FilterMap([k \in 1..Len(method) |->
                                ParamResult(method[k], type_names)]))

(***************************************************************************)
(* mod.rs: GeneratedCppBlocks::from.  The parser holds the stem of the     *)
(* bridge file, the type names and the parsed data: the free namespaces    *)
(* and enums, the declared objects and the extern blocks.  The generators  *)
(* of the sibling modules and the structuring step are outside src/ and    *)
(* are modelled by their contract.                                         *)
(***************************************************************************)
\* tests::test_generated_cpp_blocks_cxx_file_stem
Stems == {"ffi", "my_object"}

\* cxx_qt_data.qnamespaces
QNamespaces == {<<>>, <<"ns_b", "ns_a">>}

\* cxx_qt_data.qenums
QEnums == {<<>>, <<"EnumB", "EnumA">>}

\* cxx_qt_data.extern_cxxqt_blocks, each block by the type it declares
ExternBlocks == {<<>>, <<"i32">>, <<"U">>}

\* the constructor lists of the declared objects: none, two that resolve,
\* and two of which the second needs T
ObjectConstructors ==
    { <<>>,
      ExampleMultipleConstructors,
      <<mock_constructor, [mock_constructor EXCEPT !.arguments = <<"T">>]>> }

\* a declared object: its descriptor and its constructors
ParsedQObjects ==
    {[qobject |-> q, constructors |-> c] : q \in QObjects, c \in ObjectConstructors}

\* the orders of the elements of a sequence
Orders(seq) ==
    LET n == Len(seq)
        bijections == {f \in [1..n -> 1..n] : \A i, j \in 1..n : f[i] = f[j] => i = j}
    IN  {[k \in 1..n |-> seq[f[k]]] : f \in bijections}

\* what the structuring step may answer for the declared objects: an error,
\* or the objects in an order of its choice
Structurings(qobjects) ==
    {Err("structuring")} \cup {Ok([qobjects |-> o]) : o \in Orders(qobjects)}

Parsers ==
    { [cxx_file_stem |-> stem, type_names |-> table,
       cxx_qt_data |-> [qnamespaces |-> ns, qenums |-> en, qobjects |-> obs,
                        extern_cxxqt_blocks |-> ex, structuring |-> st]] :
        stem \in Stems, table \in CxxMappings, ns \in QNamespaces, en \in QEnums,
        ex \in ExternBlocks,
        <<obs, st>> \in UNION { {<<o, t>> : t \in Structurings(o)} :
                                o \in UNION { SeqsOfLen(ParsedQObjects, n) :
                                              n \in 0..MaxObjects } } }

\* structuring::Structures::new
Structures_new(cxx_qt_data) == cxx_qt_data.structuring

\* qnamespace::generate: the declaration, and the includes it asks for
qnamespace_generate(parsed_qnamespace) ==
    [declaration |-> "namespace " \o parsed_qnamespace,
     includes |-> {"#include <QtCore/QObject>"}]

\* qenum::generate_declaration: the declaration, and the includes it asks for
qenum_generate_declaration(parsed_qenum) ==
    [declaration |-> "enum class " \o parsed_qenum,
     includes |-> {"#include <cstdint>"}]

\* GeneratedCppQObject::from: the bundle of one object
GeneratedCppQObject_from(qobject, type_names) ==
    LET blocks == generate(qobject.qobject, qobject.constructors, <<>>, type_names)
    IN  IF blocks.ok
        THEN Ok([ident |-> qobject.qobject.ident, blocks |-> blocks.val])
        ELSE blocks

\* externcxxqt::generate
externcxxqt_generate(blocks, type_names) ==
    CollectResults([k \in 1..Len(blocks) |->
                      LET ty == syn_type_to_cpp_type(blocks[k], type_names)
                      IN  IF ty.ok THEN Ok([forward_declares |-> <<ty.val>>]) ELSE ty])

\* the declarations and the includes of lines 52-66
ForwardDeclares(cxx_qt_data) ==
    LET ns == [k \in 1..Len(cxx_qt_data.qnamespaces) |->
                 qnamespace_generate(cxx_qt_data.qnamespaces[k])]
        en == [k \in 1..Len(cxx_qt_data.qenums) |->
                 qenum_generate_declaration(cxx_qt_data.qenums[k])]
    IN  [forward_declares |->
            [k \in 1..Len(ns) |-> ns[k].declaration]
            \o [k \in 1..Len(en) |-> en[k].declaration],
         includes |->
            UNION ({ns[k].includes : k \in 1..Len(ns)}
                   \cup {en[k].includes : k \in 1..Len(en)})]

\* the values of a sequence of results that are Ok
Succeeded(results) ==
    LET ok == SelectSeq(results, LAMBDA r : r.ok)
    IN  [k \in 1..Len(ok) |-> ok[k].val]

\* GeneratedCppBlocks::from leaving out the objects that fail
GeneratedCppBlocks_from_best_effort(parser) ==
    LET structures == Structures_new(parser.cxx_qt_data)
    IN  IF ~structures.ok THEN structures
        ELSE
        LET declared == ForwardDeclares(parser.cxx_qt_data)
            qobjects == [k \in 1..Len(structures.val.qobjects) |->
                           GeneratedCppQObject_from(structures.val.qobjects[k],
                                                    parser.type_names)]
            extern_cxx_qt == externcxxqt_generate(
                                parser.cxx_qt_data.extern_cxxqt_blocks, parser.type_names)
        IN  IF ~extern_cxx_qt.ok THEN extern_cxx_qt
            ELSE Ok([forward_declares |-> declared.forward_declares,
                     includes |-> declared.includes,
                     cxx_file_stem |-> parser.cxx_file_stem,
                     qobjects |-> Succeeded(qobjects),
                     extern_cxx_qt |-> extern_cxx_qt.val])

\* GeneratedCppBlocks::from taking the objects in the order of declaration
GeneratedCppBlocks_from_declared_order(parser) ==
    LET structures == Structures_new(parser.cxx_qt_data)
    IN  IF ~structures.ok THEN structures
        ELSE
        LET declared == ForwardDeclares(parser.cxx_qt_data)
            qobjects == CollectResults(
                          [k \in 1..Len(parser.cxx_qt_data.qobjects) |->
                             GeneratedCppQObject_from(parser.cxx_qt_data.qobjects[k],
                                                      parser.type_names)])
        IN  IF ~qobjects.ok THEN qobjects
            ELSE
            LET extern_cxx_qt == externcxxqt_generate(
                                    parser.cxx_qt_data.extern_cxxqt_blocks,
                                    parser.type_names)
            IN  IF ~extern_cxx_qt.ok THEN extern_cxx_qt
                ELSE Ok([forward_declares |-> declared.forward_declares,
                         includes |-> declared.includes,
                         cxx_file_stem |-> parser.cxx_file_stem,
                         qobjects |-> qobjects.val,
                         extern_cxx_qt |-> extern_cxx_qt.val])

\* lines 49-81; the fields of the value are evaluated in the order written,
\* so an error of an object comes before an error of the extern blocks
GeneratedCppBlocks_from(parser) ==
    LET structures == Structures_new(parser.cxx_qt_data)
    IN  IF ~structures.ok THEN structures
        ELSE
        LET declared == ForwardDeclares(parser.cxx_qt_data)
            qobjects == CollectResults(
                          [k \in 1..Len(structures.val.qobjects) |->
                             GeneratedCppQObject_from(structures.val.qobjects[k],
                                                      parser.type_names)])
        IN  IF ~qobjects.ok THEN qobjects
            ELSE
            LET extern_cxx_qt == externcxxqt_generate(
                                    parser.cxx_qt_data.extern_cxxqt_blocks,
                                    parser.type_names)
            IN  IF ~extern_cxx_qt.ok THEN extern_cxx_qt
                ELSE Ok([forward_declares |-> declared.forward_declares,
                         includes |-> declared.includes,
                         cxx_file_stem |-> parser.cxx_file_stem,
                         qobjects |-> qobjects.val,
                         extern_cxx_qt |-> extern_cxx_qt.val])

(***************************************************************************)
(* constructor.rs, lines 80-127: one iteration of the loop of generate,    *)
(* for the constructor at `index` (0-based).                               *)
(***************************************************************************)
LoopIteration(qobject, constructor, initializers, cxx_mappings, index, generated) ==
    LET argument_list == expand_arguments(constructor.arguments, cxx_mappings)
        constructor_argument_names == argument_names(constructor.arguments)
    IN  IF ~argument_list.ok THEN argument_list
        ELSE Ok([generated EXCEPT
                   !.methods = Append(@,
                       PublicConstructor(qobject, index, argument_list.val,
                                         constructor_argument_names)),
                   !.private_methods = Append(@,
                       PrivateConstructor(qobject, index, BaseArgs(constructor),
                                          initializers))])

(***************************************************************************)
(* qt-build-utils/src/lib.rs: QtBuild.  The environment of a build script  *)
(* is the two variables QMAKE and QT_VERSION_MAJOR, what running each      *)
(* qmake executable gives, what `qmake -query` answers and which tool      *)
(* paths can be run.  A text is the sequence of its pieces, " " a piece of *)
(* white space.                                                            *)
(***************************************************************************)
Unset == [set |-> FALSE]
SetTo(value) == [set |-> TRUE, value |-> value]

RECURSIVE TrimStart(_)
TrimStart(text) ==
    IF text # <<>> /\ Head(text) \in {" ", "\n"} THEN TrimStart(Tail(text)) ELSE text

RECURSIVE TrimEnd(_)
TrimEnd(text) ==
    IF text # <<>> /\ text[Len(text)] \in {" ", "\n"}
    THEN TrimEnd(SubSeq(text, 1, Len(text) - 1))
    ELSE text

\* str::trim
Trim(text) == TrimEnd(TrimStart(text))

\* the String of a text
RECURSIVE ToStr(_)
ToStr(text) == IF text = <<>> THEN "" ELSE Head(text) \o ToStr(Tail(text))

\* str::parse::<u32> on the numerals a Qt major version is written with
parse_u32(string) ==
    IF string = "" THEN Err("Empty")
    ELSE IF string = "5" THEN Ok(5)
    ELSE IF string = "6" THEN Ok(6)
    ELSE Err("InvalidDigit")

\* versions::SemVer::new on the version strings qmake prints
SemVer_new(string) ==
    IF string = "5.15.2" THEN [major |-> 5, minor |-> 15, patch |-> 2]
    ELSE [major |-> 6, minor |-> 5, patch |-> 0]

\* the path QMAKE names
QmakePath == "/opt/qt/bin/qmake"

\* values of the variable QMAKE
QmakeValues == {Unset, SetTo(<<QmakePath>>), SetTo(<<" ", QmakePath, "\n">>)}

\* values of the variable QT_VERSION_MAJOR
VersionMajorValues ==
    {Unset, SetTo(<<>>), SetTo(<<" ">>), SetTo(<<"6">>), SetTo(<<" ", "5">>),
     SetTo(<<"six">>)}

\* what Command::new(qmake).args(["-query", "QT_VERSION"]).output() gives
NotFound == [io |-> "NotFound"]
Denied == [io |-> "PermissionDenied"]
Exited(success, stdout) == [io |-> "Ok", success |-> success, stdout |-> stdout]

QmakeOutputs ==
    {NotFound, Denied, Exited(FALSE, <<>>),
     Exited(TRUE, <<"5.15.2", "\n">>), Exited(TRUE, <<"6.5.0", "\n">>)}

\* line 257
candidate_executable_names_unversioned_first == <<"qmake", "qmake6", "qmake-qt5">>

candidate_executable_names == <<"qmake6", "qmake-qt5", "qmake">>

\* lines 501-510
qmake_query_vars ==
    <<"QT_HOST_LIBEXECS/get", "QT_HOST_LIBEXECS", "QT_HOST_BINS/get", "QT_HOST_BINS",
      "QT_INSTALL_LIBEXECS/get", "QT_INSTALL_LIBEXECS", "QT_INSTALL_BINS/get",
      "QT_INSTALL_BINS">>

QtTools == {"moc", "qmltyperegistrar", "rcc"}

\* what `qmake -query` prints for each variable, and the query variables
\* under whose directory the Qt tools can be run
Installations ==
    { [answers |-> [v \in Elements(qmake_query_vars) |-> <<"/qt/", v, "\n">>], runnable |-> r] :
        r \in { {}, {"QT_HOST_BINS", "QT_INSTALL_BINS"},
                {"QT_INSTALL_LIBEXECS/get", "QT_INSTALL_LIBEXECS"} } }

\* the environments with QMAKE unset, and those with QMAKE set, where the
\* executables of the search path are absent or a Qt 6 qmake
Environments ==
    UNION { { [QMAKE |-> q, QT_VERSION_MAJOR |-> v, commands |-> c, installation |-> i] :
                v \in VersionMajorValues, i \in Installations,
                c \in { f \in [Elements(candidate_executable_names) \cup {QmakePath}
                                  -> QmakeOutputs] :
                          IF q.set
                          THEN \A n \in Elements(candidate_executable_names) :
                                  f[n] \in {NotFound, Exited(TRUE, <<"6.5.0", "\n">>)}
                          ELSE f[QmakePath] = NotFound } } :
            q \in QmakeValues }

QtModules == {<<>>, <<"Gui">>}

\* QtBuildError
QtMissing == [kind |-> "QtMissing"]
QmakeFailed == [kind |-> "QmakeFailed"]
QtVersionMajorInvalid(qt_version_major_env_var) == [kind |-> "QtVersionMajorInvalid", qt_version_major_env_var |-> qt_version_major_env_var]
QtVersionMajorDoesNotMatch(qmake_version, qt_version_major) == [kind |-> "QtVersionMajorDoesNotMatch", qmake_version |-> qmake_version, qt_version_major |-> qt_version_major]
QMakeSetQtMissing(qmake_env_var, error) == [kind |-> "QMakeSetQtMissing", qmake_env_var |-> qmake_env_var, error |-> error]

\* verify_candidate accepting any major version
verify_candidate_any_version(candidate, environment) ==
    LET output == environment.commands[candidate]
    IN  IF output.io = "NotFound" THEN Err(QtMissing)
        ELSE IF output.io # "Ok" THEN Err(QmakeFailed)
        ELSE IF ~output.success THEN Err(QtMissing)
        ELSE Ok(<<candidate, SemVer_new(ToStr(Trim(output.stdout)))>>)

\* lines 188-233
verify_candidate(candidate, environment) ==
    LET output == environment.commands[candidate]
    IN  IF output.io = "NotFound" THEN Err(QtMissing)
        ELSE IF output.io # "Ok" THEN Err(QmakeFailed)
        ELSE IF ~output.success THEN Err(QtMissing)
        ELSE
        LET qmake_version == SemVer_new(ToStr(Trim(output.stdout)))
        IN  IF ~environment.QT_VERSION_MAJOR.set THEN Ok(<<candidate, qmake_version>>)
            ELSE
            LET env_version == parse_u32(ToStr(Trim(environment.QT_VERSION_MAJOR.value)))
            IN  IF ~env_version.ok /\ env_version.err = "Empty"
                THEN Ok(<<candidate, qmake_version>>)
                ELSE IF ~env_version.ok
                THEN Err(QtVersionMajorInvalid(ToStr(environment.QT_VERSION_MAJOR.value)))
                ELSE IF env_version.val = qmake_version.major
                THEN Ok(<<candidate, qmake_version>>)
                ELSE Err(QtVersionMajorDoesNotMatch(qmake_version.major, env_version.val))

\* lines 238-245 and 261-268: the QtBuild of a verified candidate
Self(verified, qt_modules) ==
    [qmake_executable |-> verified[1],
     moc_executable |-> None,
     qmltyperegistrar_executable |-> None,
     rcc_executable |-> None,
     version |-> verified[2],
     qt_modules |-> qt_modules]

\* what a call gives: its result and the commands it ran, in order
Ran(result, commands) == [result |-> result, commands |-> commands]

\* lines 258-292: the loop from the candidate at `index` (0-based) on
RECURSIVE Candidates(_, _, _, _)
Candidates(index, qt_modules, environment, commands) ==
    IF index >= Len(candidate_executable_names) THEN Ran(Err(QtMissing), commands)
    ELSE LET executable_name == candidate_executable_names[index + 1]
             verified == verify_candidate(executable_name, environment)
             ran == Append(commands, executable_name)
         IN  IF verified.ok THEN Ran(Ok(Self(verified.val, qt_modules)), ran)
             ELSE IF verified.err.kind = "QtVersionMajorDoesNotMatch"
             THEN IF index = Len(candidate_executable_names) - 1
                  THEN Ran(verified, ran)
                  ELSE Candidates(index + 1, qt_modules, environment, ran)
             ELSE IF verified.err = QtMissing
             THEN Candidates(index + 1, qt_modules, environment, ran)
             ELSE Ran(verified, ran)

\* lines 183-185
DefaultModules(qt_modules) == IF qt_modules = <<>> THEN <<"Core">> ELSE qt_modules

\* QtBuild::new going on to the search path when the QMAKE executable fails
QtBuild_new_falls_back(qt_modules, environment) ==
    LET modules == DefaultModules(qt_modules)
    IN  IF environment.QMAKE.set
        THEN LET candidate == ToStr(Trim(environment.QMAKE.value))
                 verified == verify_candidate(candidate, environment)
             IN  IF verified.ok
                 THEN Ran(Ok(Self(verified.val, modules)), <<candidate>>)
                 ELSE Candidates(0, modules, environment, <<candidate>>)
        ELSE Candidates(0, modules, environment, <<>>)

\* lines 182-293
QtBuild_new(qt_modules, environment) ==
    LET modules == DefaultModules(qt_modules)
    IN  IF environment.QMAKE.set
        THEN LET candidate == ToStr(Trim(environment.QMAKE.value))
                 verified == verify_candidate(candidate, environment)
             IN  IF verified.ok
                 THEN Ran(Ok(Self(verified.val, modules)), <<candidate>>)
                 ELSE Ran(Err(QMakeSetQtMissing(ToStr(environment.QMAKE.value),
                                                verified.err)),
                          <<candidate>>)
        ELSE Candidates(0, modules, environment, <<>>)

\* lines 296-307
qmake_query(var_name, environment) ==
    ToStr(Trim(environment.installation.answers[var_name]))

\* lines 467-518: the loop from the query variable at position `index` on
RECURSIVE QtToolFrom(_, _, _)
QtToolFrom(index, tool_name, environment) ==
    IF index > Len(qmake_query_vars) THEN Err("()")
    ELSE LET qmake_query_var == qmake_query_vars[index]
             executable_path == qmake_query(qmake_query_var, environment) \o "/" \o tool_name
         IN  IF qmake_query_var \in environment.installation.runnable
             THEN Ok(executable_path)
             ELSE QtToolFrom(index + 1, tool_name, environment)

get_qt_tool(tool_name, environment) == QtToolFrom(1, tool_name, environment)

\* the slot of a tool in QtBuild
Slot(tool_name) == tool_name \o "_executable"

(***************************************************************************)
(* State: one call of constructor::generate, its result, and one           *)
(* construction through a constructor it generated; one call of            *)
(* get_cpp_params and its result; one call of GeneratedCppBlocks::from and *)
(* its result; the generation of the objects of a parser as one task per   *)
(* object; one QtBuild, from QtBuild::new on through the calls of its tool *)
(* methods.                                                                *)
(***************************************************************************)
VARIABLES
    environment,          \* the environment QtBuild runs in
    qt_modules,           \* the modules passed to QtBuild::new
    qtbuild,              \* what QtBuild::new returned, as the tool methods left it
    executed,             \* the qmake executables QtBuild::new ran, in order
    calls,                \* per tool, the calls of its method so far
    lookups,              \* per tool, the calls of get_qt_tool so far
    parser,               \* the Parser passed to GeneratedCppBlocks::from
    cpp_blocks,           \* what GeneratedCppBlocks::from returned
    tasks,                \* per object, how far its generation has come
    method,               \* the signature passed to get_cpp_params
    type_names,           \* the TypeNames passed to get_cpp_params
    cpp_params,           \* what get_cpp_params returned
    qobject,              \* the GeneratedCppQObject passed in
    constructors,         \* the Constructor list passed in
    member_initializers,  \* the initializer snippets passed in
    cxx_mappings,         \* the ParsedCxxMappings passed in
    pc,                   \* "call", "returned", "constructing", "constructed"
    result,               \* what generate returned
    ctor,                 \* the generated public constructor being run (1-based)
    trace,                \* the events of the construction so far
    pending               \* the events of the construction still to come

inputs == <<qobject, constructors, member_initializers, cxx_mappings>>

generation == <<qobject, constructors, member_initializers, cxx_mappings, result,
                ctor, trace, pending>>

signature == <<method, type_names, cpp_params>>

assembly == <<parser, cpp_blocks, tasks>>

build == <<environment, qt_modules, qtbuild, executed, calls, lookups>>

vars == <<qobject, constructors, member_initializers, cxx_mappings, pc, result,
          ctor, trace, pending, method, type_names, cpp_params, parser,
          cpp_blocks, tasks, environment, qt_modules, qtbuild, executed, calls,
          lookups>>

NoResult == [ok |-> FALSE, err |-> "not called"]

\* no tool method called
NoCalls == [tool \in QtTools |-> 0]

\* no QtBuild
NoBuild ==
    /\ environment = CHOOSE e \in Environments :
                        /\ ~e.QMAKE.set
                        /\ ~e.QT_VERSION_MAJOR.set
                        /\ e.installation.runnable = {}
                        /\ \A n \in DOMAIN e.commands : e.commands[n] = NotFound
    /\ qt_modules = <<>>
    /\ qtbuild = NoResult
    /\ executed = <<>>
    /\ calls = NoCalls
    /\ lookups = NoCalls

\* no call of get_cpp_params
NoParams ==
    /\ method = <<>>
    /\ type_names = [ty \in {} |-> ""]
    /\ cpp_params = NoResult

\* a parser without data
EmptyParser ==
    [cxx_file_stem |-> "ffi", type_names |-> [ty \in {} |-> ""],
     cxx_qt_data |-> [qnamespaces |-> <<>>, qenums |-> <<>>, qobjects |-> <<>>,
                      extern_cxxqt_blocks |-> <<>>,
                      structuring |-> Ok([qobjects |-> <<>>])]]

\* no call of GeneratedCppBlocks::from
NoAssembly ==
    /\ parser = EmptyParser
    /\ cpp_blocks = NoResult
    /\ tasks = <<>>

\* no call of constructor::generate
NoGeneration ==
    /\ qobject = [ident |-> "MyObject", namespace_internals |-> "rust",
                  base_class |-> "BaseClass"]
    /\ constructors = <<>>
    /\ member_initializers = <<>>
    /\ cxx_mappings = [ty \in {} |-> ""]
    /\ result = NoResult
    /\ ctor = 0
    /\ trace = <<>>
    /\ pending = <<>>

InitWith(descriptors, tables) ==
    /\ NoBuild
    /\ NoParams
    /\ NoAssembly
    /\ qobject \in descriptors
    /\ constructors \in ConstructorInputs
    /\ member_initializers \in MemberInitializers
    /\ cxx_mappings \in tables
    /\ pc = "call"
    /\ result = NoResult
    /\ ctor = 0
    /\ trace = <<>>
    /\ pending = <<>>

Init == InitWith(QObjects, CxxMappings)

\* constructor::generate, lines 59-130
Generate ==
    /\ pc = "call"
    /\ result' = generate(qobject, constructors, member_initializers, cxx_mappings)
    /\ pc' = "returned"
    /\ UNCHANGED <<inputs, ctor, trace, pending, signature, assembly, build>>

\* C++ code calls the generated public constructor i
Construct(i) ==
    /\ pc = "returned"
    /\ result.ok
    /\ i \in 1..Len(result.val.methods)
    /\ ctor' = i
    /\ trace' = <<>>
    /\ pending' = ConstructionEvents(result.val, i)
    /\ pc' = "constructing"
    /\ UNCHANGED <<inputs, result, signature, assembly, build>>

\* the construction runs its next event
Step ==
    /\ pc = "constructing"
    /\ pending # <<>>
    /\ trace' = Append(trace, Head(pending))
    /\ pending' = Tail(pending)
    /\ pc' = IF Tail(pending) = <<>> THEN "constructed" ELSE "constructing"
    /\ UNCHANGED <<inputs, result, ctor, signature, assembly, build>>

Next ==
    \/ Generate

Spec == Init /\ [][Next]_vars

\* generation, then one construction through a generated constructor
NextConstruct ==
    \/ Generate
    \/ \E i \in 1..MaxConstructors : Construct(i)
    \/ Step

SpecConstruct ==
    InitWith({CHOOSE q \in QObjects : q.ident = "MyObject"},
             {m \in CxxMappings : "T" \in DOMAIN m})
    /\ [][NextConstruct]_vars

\* one call of get_cpp_params
InitParams ==
    /\ NoBuild
    /\ NoGeneration
    /\ NoAssembly
    /\ method \in Signatures
    /\ type_names \in CxxMappings
    /\ cpp_params = NoResult
    /\ pc = "call"

\* get_cpp_params, lines 85-115
GetCppParams ==
    /\ pc = "call"
    /\ cpp_params' = get_cpp_params(method, type_names)
    /\ pc' = "returned"
    /\ UNCHANGED <<generation, method, type_names, assembly, build>>

NextParams ==
    \/ GetCppParams

SpecParams == InitParams /\ [][NextParams]_vars

\* one call of GeneratedCppBlocks::from
InitBlocks ==
    /\ NoBuild
    /\ NoGeneration
    /\ NoParams
    /\ parser \in Parsers
    /\ cpp_blocks = NoResult
    /\ tasks = <<>>
    /\ pc = "call"

\* GeneratedCppBlocks::from, lines 49-81
FromParser ==
    /\ pc = "call"
    /\ cpp_blocks' = GeneratedCppBlocks_from(parser)
    /\ pc' = "returned"
    /\ UNCHANGED <<generation, signature, parser, tasks, build>>

NextBlocks ==
    \/ FromParser

SpecBlocks == InitBlocks /\ [][NextBlocks]_vars

(***************************************************************************)
(* The objects of a parser generated as one task per object, the steps of  *)
(* the tasks interleaved in any way.  A task is one call of                *)
(* GeneratedCppQObject::from: it runs constructor::generate one loop       *)
(* iteration at a time and reads, besides its own locals, only its object  *)
(* and the type names.                                                     *)
(***************************************************************************)
Idle == [state |-> "idle", index |-> 0, generated |-> DefaultBlocks, result |-> NoResult]

\* the objects the structuring step handed over
Structured == parser.cxx_qt_data.structuring.val.qobjects

InitParallel ==
    /\ NoBuild
    /\ NoGeneration
    /\ NoParams
    /\ parser \in {p \in Parsers :
                      /\ p.cxx_file_stem = "ffi"
                      /\ p.cxx_qt_data.qnamespaces = <<>>
                      /\ p.cxx_qt_data.qenums = <<>>
                      /\ p.cxx_qt_data.extern_cxxqt_blocks = <<>>
                      /\ p.cxx_qt_data.structuring = Ok([qobjects |-> p.cxx_qt_data.qobjects])}
    /\ cpp_blocks = NoResult
    /\ tasks = [o \in 1..Len(parser.cxx_qt_data.qobjects) |-> Idle]
    /\ pc = "call"

\* the bundle of an object around the result of constructor::generate
Bundle(o, blocks) ==
    IF blocks.ok THEN Ok([ident |-> Structured[o].qobject.ident, blocks |-> blocks.val])
    ELSE blocks

\* constructor.rs lines 59-78: the call, up to the loop
TaskStart(o) ==
    /\ o \in 1..Len(tasks)
    /\ tasks[o].state = "idle"
    /\ tasks' = [tasks EXCEPT ![o] =
          IF Structured[o].constructors = <<>>
          THEN [@ EXCEPT !.state = "done",
                         !.result = Bundle(o, Ok(default_constructor(
                                        Structured[o].qobject, Initializers(<<>>))))]
          ELSE [@ EXCEPT !.state = "running"]]
    /\ UNCHANGED <<generation, signature, parser, cpp_blocks, pc, build>>

\* TaskStep numbering the constructors by a count all tasks share
TaskStep_shared_index(o) ==
    /\ o \in 1..Len(tasks)
    /\ tasks[o].state = "running"
    /\ LET task == tasks[o]
           shared == LET RECURSIVE Sum(_)
                         Sum(k) == IF k = 0 THEN 0 ELSE tasks[k].index + Sum(k - 1)
                     IN  Sum(Len(tasks))
       IN  tasks' = [tasks EXCEPT ![o] =
             IF task.index >= Len(Structured[o].constructors)
             THEN [@ EXCEPT !.state = "done", !.result = Bundle(o, Ok(task.generated))]
             ELSE LET step == LoopIteration(Structured[o].qobject,
                                 Structured[o].constructors[task.index + 1],
                                 Initializers(<<>>), parser.type_names,
                                 shared, task.generated)
                  IN  IF step.ok
                      THEN [@ EXCEPT !.index = @ + 1, !.generated = step.val]
                      ELSE [@ EXCEPT !.state = "done", !.result = Bundle(o, step)]]
    /\ UNCHANGED <<generation, signature, parser, cpp_blocks, pc, build>>

\* constructor.rs lines 80-129: one iteration of the loop, or the return
TaskStep(o) ==
    /\ o \in 1..Len(tasks)
    /\ tasks[o].state = "running"
    /\ LET task == tasks[o]
       IN  tasks' = [tasks EXCEPT ![o] =
             IF task.index >= Len(Structured[o].constructors)
             THEN [@ EXCEPT !.state = "done", !.result = Bundle(o, Ok(task.generated))]
             ELSE LET step == LoopIteration(Structured[o].qobject,
                                 Structured[o].constructors[task.index + 1],
                                 Initializers(<<>>), parser.type_names,
                                 task.index, task.generated)
                  IN  IF step.ok
                      THEN [@ EXCEPT !.index = @ + 1, !.generated = step.val]
                      ELSE [@ EXCEPT !.state = "done", !.result = Bundle(o, step)]]
    /\ UNCHANGED <<generation, signature, parser, cpp_blocks, pc, build>>

NextParallel ==
    \/ \E o \in 1..MaxObjects : TaskStart(o)
    \/ \E o \in 1..MaxObjects : TaskStep(o)

SpecParallel == InitParallel /\ [][NextParallel]_vars

(***************************************************************************)
(* The generation of one object whose constructors take arguments of       *)
(* several types that may fail to resolve: i32 always resolves, T only     *)
(* under the table that maps it, U under no table.                         *)
(***************************************************************************)
ScanTypes == {"i32", "T", "U"}

\* lists of n argument lists holding at most budget types
RECURSIVE ArgumentLists(_, _)
ArgumentLists(n, budget) ==
    IF n = 0 THEN {<<>>}
    ELSE UNION { { <<a>> \o rest : a \in SeqsOfLen(ScanTypes, l),
                                   rest \in ArgumentLists(n - 1, budget - l) } :
                 l \in 0..budget }

ScanConstructors ==
    { [i \in 1..Len(args) |-> [mock_constructor EXCEPT !.arguments = args[i]]] :
        args \in UNION { ArgumentLists(n, MaxTypes) : n \in 0..MaxConstructors } }

InitScan ==
    /\ NoBuild
    /\ NoGeneration
    /\ NoParams
    /\ \E cs \in ScanConstructors, table \in CxxMappings :
          LET object == [qobject |-> CHOOSE q \in QObjects : q.ident = "MyObject",
                         constructors |-> cs]
          IN  parser = [EmptyParser EXCEPT
                          !.type_names = table,
                          !.cxx_qt_data.qobjects = <<object>>,
                          !.cxx_qt_data.structuring = Ok([qobjects |-> <<object>>])]
    /\ cpp_blocks = NoResult
    /\ tasks = <<Idle>>
    /\ pc = "call"

SpecScan == InitScan /\ [][NextParallel]_vars

(***************************************************************************)
(* One QtBuild: QtBuild::new, then calls of moc, register_qml_types and    *)
(* qrc on the value it returned.  A tool that cannot be found makes its    *)
(* method panic, which ends the build script.                              *)
(***************************************************************************)
InitQt ==
    /\ NoGeneration
    /\ NoParams
    /\ NoAssembly
    /\ environment \in Environments
    /\ qt_modules \in QtModules
    /\ qtbuild = NoResult
    /\ executed = <<>>
    /\ calls = NoCalls
    /\ lookups = NoCalls
    /\ pc = "call"

\* QtBuild::new, lines 182-293
New ==
    /\ pc = "call"
    /\ LET ran == QtBuild_new(qt_modules, environment)
       IN  /\ qtbuild' = ran.result
           /\ executed' = ran.commands
    /\ pc' = "returned"
    /\ UNCHANGED <<generation, signature, assembly, environment, qt_modules, calls,
                   lookups>>

\* ToolCall looking the tool up on every call
ToolCall_eager(tool_name) ==
    /\ pc = "returned"
    /\ qtbuild.ok
    /\ calls[tool_name] < MaxCalls
    /\ calls' = [calls EXCEPT ![tool_name] = @ + 1]
    /\ LET found == get_qt_tool(tool_name, environment)
       IN  /\ lookups' = [lookups EXCEPT ![tool_name] = @ + 1]
           /\ IF found.ok
              THEN /\ qtbuild' = [qtbuild EXCEPT !.val[Slot(tool_name)] = Some(found.val)]
                   /\ pc' = pc
              ELSE /\ pc' = "panicked"
                   /\ qtbuild' = qtbuild
    /\ UNCHANGED <<generation, signature, assembly, environment, qt_modules, executed>>

\* lines 530-532, 588-593, 686-688: the start of moc, register_qml_types
\* and qrc, each for its own tool
ToolCall(tool_name) ==
    /\ pc = "returned"
    /\ qtbuild.ok
    /\ calls[tool_name] < MaxCalls
    /\ calls' = [calls EXCEPT ![tool_name] = @ + 1]
    /\ IF qtbuild.val[Slot(tool_name)] = None
       THEN LET found == get_qt_tool(tool_name, environment)
            IN  /\ lookups' = [lookups EXCEPT ![tool_name] = @ + 1]
                /\ IF found.ok
                   THEN /\ qtbuild' = [qtbuild EXCEPT
                                         !.val[Slot(tool_name)] = Some(found.val)]
                        /\ pc' = pc
                   ELSE /\ pc' = "panicked"
                        /\ qtbuild' = qtbuild
       ELSE UNCHANGED <<qtbuild, lookups, pc>>
    /\ UNCHANGED <<generation, signature, assembly, environment, qt_modules, executed>>

\* QtBuild::moc
Moc == ToolCall("moc")

\* QtBuild::register_qml_types
RegisterQmlTypes == ToolCall("qmltyperegistrar")

\* QtBuild::qrc
Qrc == ToolCall("rcc")

NextQt ==
    \/ New
    \/ Moc
    \/ RegisterQmlTypes
    \/ Qrc

SpecQt == InitQt /\ [][NextQt]_vars

(***************************************************************************)
(* Vocabulary of the properties.                                           *)
(***************************************************************************)
Range(f) == {f[x] : x \in DOMAIN f}

\* start of the first occurrence of part in toks as a contiguous run, else 0
Find(toks, part) ==
    LET starts == {p \in 1..Len(toks) :
                     /\ p + Len(part) - 1 <= Len(toks)
                     /\ SubSeq(toks, p, p + Len(part) - 1) = part}
    IN  IF starts = {} THEN 0 ELSE Min(starts)

IsPrefix(s, t) == Len(s) <= Len(t) /\ SubSeq(t, 1, Len(s)) = s

IsSnippet(tok) == tok \in Range(InitializerSnippets)

\* the extra initializer snippets in a run of tokens, in their order
Snippets(toks) == SelectSeq(toks, IsSnippet)

\* every token of a fragment
Names(fragment) == Range(fragment.header) \cup Range(fragment.source)

\* generate has returned Ok for a non-empty constructor list
Generated == pc # "call" /\ result.ok /\ constructors # <<>>

\* a call's arguments, each wrapped in a move: move(x1), move(x2), ...
Moved(operands) ==
    Flatten([k \in 1..Len(operands) |->
               (IF k = 1 THEN <<>> ELSE <<",">>)
               \o <<"::std::move", "(", operands[k], ")">>])

\* arg0, arg1, ..., arg{k-1}, each behind prefix
Positional(prefix, k) == [j \in 1..k |-> prefix \o "arg" \o ToString(j - 1)]

\* the initializer list and body of a constructor definition
Body(source) == After(source, IndexOf(source, ":"))

(***************************************************************************)
(* C1: with an empty constructor list generate returns exactly one public  *)
(* fragment and no private fragment, and the source of that fragment holds *)
(* the base-class call on `parent`, then the createRs() call initializing  *)
(* m_rustObj, then every extra initializer snippet in input order.         *)
(***************************************************************************)
C1_DefaultConstructor ==
    (pc # "call" /\ constructors = <<>>) =>
        /\ result.ok
        /\ Len(result.val.methods) = 1
        /\ Len(result.val.private_methods) = 0
        /\ LET source == result.val.methods[1].source
               create == <<"m_rustObj", "(", "::", qobject.namespace_internals, "::",
                           "createRs", "(", ")", ")">>
               base == Find(source, <<qobject.base_class, "(", "parent", ")">>)
               slot == Find(source, create)
           IN  /\ 0 < base
               /\ base < slot
               /\ Snippets(SubSeq(source, 1, slot + Len(create) - 1)) = <<>>
               /\ Snippets(After(source, slot + Len(create) - 1)) = member_initializers

C1_Witness ==
    pc = "returned" /\ constructors = <<>> /\ Len(member_initializers) >= 2

(***************************************************************************)
(* C2: N >= 1 declared constructors give exactly N public and N private    *)
(* fragments; the i-th public fragment names routeArguments{i}, the i-th   *)
(* private fragment names the aggregate, newRs{i} and initialize{i}, all   *)
(* with the index i of the constructor's position.                         *)
(*   C2_AsClaimed takes the aggregate's name to be ConstructorArguments{i} *)
(*   C2_IndexedNames takes it to be CxxQtConstructorArguments{i}           *)
(***************************************************************************)
IndexedNames(aggregate) ==
    Generated =>
        /\ Len(result.val.methods) = Len(constructors)
        /\ Len(result.val.private_methods) = Len(constructors)
        /\ \A i \in 0..(Len(constructors) - 1) :
             \A j \in 0..Len(constructors) :
               LET public == Names(result.val.methods[i + 1])
                   private == Names(result.val.private_methods[i + 1])
               IN  /\ ("routeArguments" \o ToString(j) \in public) <=> (j = i)
                   /\ (aggregate \o ToString(j) \in private) <=> (j = i)
                   /\ ("newRs" \o ToString(j) \in private) <=> (j = i)
                   /\ ("initialize" \o ToString(j) \in private) <=> (j = i)

C2_AsClaimed == IndexedNames("ConstructorArguments")

C2_IndexedNames == IndexedNames("CxxQtConstructorArguments")

C2_Witness == Generated /\ Len(constructors) >= 2

(***************************************************************************)
(* C3: a construction through generated constructor pair i runs, in this   *)
(* order and with no other call or initializer between them:               *)
(* routeArguments{i}, the delegation to the private constructor, the base  *)
(* class constructor, newRs{i} and the m_rustObj slot it initializes, the  *)
(* extra member initializers in their order, and last initialize{i}; so    *)
(* initialize{i} never runs before the slot is initialized.                *)
(***************************************************************************)
\* the calls and initializers among events, in their order
Calls(events) == SelectSeq(events, LAMBDA e : e.op \in {"call", "init"})

ConstructionOrder(index) ==
    <<Event("call", "routeArguments" \o ToString(index)),
      Event("call", qobject.ident),
      Event("call", qobject.base_class),
      Event("call", "newRs" \o ToString(index)),
      Event("call", "m_rustObj")>>
    \o [k \in 1..Len(member_initializers) |-> Event("init", member_initializers[k])]
    \o <<Event("call", "initialize" \o ToString(index))>>

Constructing == pc \in {"constructing", "constructed"} /\ constructors # <<>>

C3_ConstructionOrder ==
    Constructing =>
        /\ IsPrefix(Calls(trace), ConstructionOrder(ctor - 1))
        /\ Calls(trace \o pending) = ConstructionOrder(ctor - 1)
        /\ (Event("call", "initialize" \o ToString(ctor - 1)) \in Range(trace)
              => Event("call", "m_rustObj") \in Range(trace))
        /\ (pc = "constructed" => pending = <<>>)

C3_Witness ==
    /\ pc = "constructed"
    /\ ctor = 2
    /\ Len(constructors) = 2
    /\ Len(member_initializers) >= 2
    /\ Event("call", "initialize1") \in Range(trace)

(***************************************************************************)
(* C4: in a construction through a declared constructor every public       *)
(* argument arg{k} and every part of the routed aggregate                  *)
(* (args.base.arg{k}, args.new_, args.initialize) is used exactly once,    *)
(* by a move, and never touched again: nothing is copied or used twice.    *)
(***************************************************************************)
Operands(constructor) ==
    Range(Positional("", Len(constructor.arguments)))
    \cup Range(Positional("args.base.", Len(constructor.base_arguments)))
    \cup {"args.new_", "args.initialize"}

Uses(events, name) == SelectSeq(events, LAMBDA e : e.name = name)

C4_MovedOnce ==
    Constructing =>
        \A x \in Operands(constructors[ctor]) :
            /\ Len(Uses(trace, x)) <= 1
            /\ \A k \in 1..Len(Uses(trace, x)) : Uses(trace, x)[k].op = "move"
            /\ (pc = "constructed" => Uses(trace, x) = <<Event("move", x)>>)

C4_Witness ==
    /\ pc = "constructed"
    /\ constructors # <<>>
    /\ constructors[ctor].arguments # <<>>
    /\ constructors[ctor].base_arguments # <<>>

(***************************************************************************)
(* C5: the public fragment of declared constructor i with k arguments      *)
(* delegates by the one expression ClassName(routeArguments{i}(...)),      *)
(* whose arguments are exactly arg0..arg{k-1}, each moved, in signature    *)
(* order; with k = 0 the argument list is empty.                           *)
(***************************************************************************)
C5_RouteArguments ==
    Generated =>
        \A i \in 0..(Len(constructors) - 1) :
            LET k == Len(constructors[i + 1].arguments)
            IN  Body(result.val.methods[i + 1].source) =
                    <<qobject.ident, "(", "::", qobject.namespace_internals, "::",
                      "routeArguments" \o ToString(i), "(">>
                    \o Moved(Positional("", k))
                    \o <<")", ")", "\n", "{", "}", "\n">>

C5_Witness ==
    /\ Generated
    /\ \E i \in 1..Len(constructors) : Len(constructors[i].arguments) = 0
    /\ \E i \in 1..Len(constructors) : Len(constructors[i].arguments) >= 2

(***************************************************************************)
(* C6: the base-class call of a private fragment has no arguments when the *)
(* constructor's base-argument list is empty, and otherwise exactly one    *)
(* argument per entry, the k-th a move of args.base.arg{k}, in list order. *)
(***************************************************************************)
C6_BaseArguments ==
    Generated =>
        \A i \in 1..Len(constructors) :
            LET m == Len(constructors[i].base_arguments)
                call == <<qobject.base_class, "(">>
                        \o Moved(Positional("args.base.", m)) \o <<")", "\n">>
            IN  /\ IsPrefix(call, Body(result.val.private_methods[i].source))
                /\ (m = 0 => IsPrefix(<<qobject.base_class, "(", ")">>,
                                      Body(result.val.private_methods[i].source)))

C6_Witness ==
    /\ Generated
    /\ \E i \in 1..Len(constructors) : Len(constructors[i].base_arguments) >= 2
    /\ \E i \in 1..Len(constructors) : Len(constructors[i].base_arguments) = 0

(***************************************************************************)
(* C7: every private fragment of one object carries the same extra         *)
(* initializer snippets, in input order, after the m_rustObj initializer   *)
(* and before the constructor body, whatever the constructor's index and   *)
(* arguments; they are the snippets the default constructor carries when   *)
(* no constructor is declared.                                             *)
(***************************************************************************)
\* the snippets between the end of the m_rustObj initializer and the body
InitializerSection(source, entry) ==
    LET slot == Find(source, <<"m_rustObj", "(", "::", qobject.namespace_internals,
                               "::", entry, "(">>)
        close == slot + 6 + Find(After(source, slot + 6), <<")", ")">>) + 1
        body == IndexOf(source, "{")
    IN  IF slot = 0 \/ body <= close THEN <<"no initializer section">>
        ELSE SubSeq(source, close + 1, body - 1)

C7_SameInitializers ==
    Generated =>
        LET default == generate(qobject, <<>>, member_initializers, cxx_mappings)
        IN  \A i \in 1..Len(constructors) :
              LET source == result.val.private_methods[i].source
                  section == InitializerSection(source, "newRs" \o ToString(i - 1))
              IN  /\ Snippets(section) = member_initializers
                  /\ Snippets(source) = member_initializers
                  /\ Snippets(section) =
                       Snippets(InitializerSection(default.val.methods[1].source,
                                                   "createRs"))

C7_Witness ==
    /\ Generated
    /\ Len(constructors) >= 2
    /\ Len(member_initializers) >= 2
    /\ constructors[1] # constructors[2]

(***************************************************************************)
(* C8: the parameters of the public signature of a constructor with k      *)
(* arguments are named arg0, arg1, ..., arg{k-1} in position order,        *)
(* whatever their types.                                                   *)
(***************************************************************************)
\* the tokens between the first "(" and the first ")" of a declaration
ParameterList(toks) ==
    SubSeq(toks, IndexOf(toks, "(") + 1, IndexOf(toks, ")") - 1)

\* the parameter names of a list `type name, type name, ...`
ParameterNames(params) ==
    [j \in 1..((Len(params) + 1) \div 3) |-> params[3 * j - 1]]

C8_ParameterNames ==
    Generated =>
        \A i \in 1..Len(constructors) :
            LET k == Len(constructors[i].arguments)
                header == ParameterList(result.val.methods[i].header)
                source == ParameterList(result.val.methods[i].source)
            IN  /\ Len(header) = (IF k = 0 THEN 0 ELSE 3 * k - 1)
                /\ ParameterNames(header) = Positional("", k)
                /\ source = header

C8_Witness ==
    /\ Generated
    /\ \E i \in 1..Len(constructors) :
         /\ Len(constructors[i].arguments) >= 2
         /\ constructors[i].arguments[1] # constructors[i].arguments[2]

(***************************************************************************)
(* C9: every generated constructor whose parameter is the routed aggregate *)
(* (CxxQtConstructorArguments{i}&& args) is in the private-methods bucket, *)
(* and every fragment of the public-methods bucket takes only the public   *)
(* arguments: no public constructor accepts the routed aggregate.          *)
(***************************************************************************)
Aggregates == {"CxxQtConstructorArguments" \o ToString(j) : j \in 0..MaxConstructors}

\* the fragment declares a constructor taking a routed aggregate
TakesAggregate(fragment) ==
    \E p \in 1..Len(fragment.header) :
        /\ fragment.header[p] \in Aggregates
        /\ p + 2 <= Len(fragment.header)
        /\ fragment.header[p + 1] = "&&"
        /\ fragment.header[p + 2] = "args"

C9_AggregateIsPrivate ==
    Generated =>
        /\ \A i \in 1..Len(result.val.methods) :
             /\ ~TakesAggregate(result.val.methods[i])
             /\ Names(result.val.methods[i]) \cap (Aggregates \cup {"args", "&&"}) = {}
             /\ i <= Len(constructors)
             /\ Len(ParameterNames(ParameterList(result.val.methods[i].header)))
                  = Len(constructors[i].arguments)
        /\ \A i \in 1..Len(result.val.private_methods) :
             TakesAggregate(result.val.private_methods[i])
        /\ Len(result.val.private_methods) = Len(constructors)

C9_Witness ==
    /\ Generated
    /\ \E i \in 1..Len(result.val.private_methods) :
         TakesAggregate(result.val.private_methods[i])
    /\ \E i \in 1..Len(constructors) : constructors[i].arguments # <<>>

(***************************************************************************)
(* C10: the entry-point and aggregate names of a constructor's fragments   *)
(* depend only on its position: generate on a list of the same length that *)
(* differs only in argument types gives the same names at every position.  *)
(***************************************************************************)
\* the names qualified by the internal namespace (::ns::name)
QualifiedNames(toks, ns) ==
    { toks[p + 3] : p \in {q \in 1..Len(toks) :
                             /\ q + 3 <= Len(toks)
                             /\ toks[q] = "::" /\ toks[q + 1] = ns
                             /\ toks[q + 2] = "::"} }

EntryNames(blocks, ns) ==
    <<[i \in 1..Len(blocks.methods) |->
         <<QualifiedNames(blocks.methods[i].header, ns),
           QualifiedNames(blocks.methods[i].source, ns)>>],
      [i \in 1..Len(blocks.private_methods) |->
         <<QualifiedNames(blocks.private_methods[i].header, ns),
           QualifiedNames(blocks.private_methods[i].source, ns)>>]>>

\* the constructor lists that differ from cs in argument types only
RECURSIVE TypeVariants(_)
TypeVariants(cs) ==
    IF cs = <<>> THEN {<<>>}
    ELSE { <<[Head(cs) EXCEPT !.arguments = a]>> \o rest :
             a \in SeqsOfLen(Types, Len(Head(cs).arguments)),
             rest \in TypeVariants(Tail(cs)) }

C10_NamesByPosition ==
    Generated =>
        \A other \in TypeVariants(constructors) :
            LET second == generate(qobject, other, member_initializers, cxx_mappings)
            IN  second.ok =>
                  EntryNames(second.val, qobject.namespace_internals)
                    = EntryNames(result.val, qobject.namespace_internals)

C10_Witness ==
    /\ Generated
    /\ Len(constructors) >= 2
    /\ constructors[2].arguments # <<>>
    /\ \E other \in TypeVariants(constructors) :
         /\ other # constructors
         /\ generate(qobject, other, member_initializers, cxx_mappings).ok

(***************************************************************************)
(* C12: if the type of any public argument of any declared constructor     *)
(* does not resolve, generate returns an error and no fragment at all, not *)
(* even those built for the constructors before the failing one.           *)
(***************************************************************************)
Unresolvable(ty) == ~syn_type_to_cpp_type(ty, cxx_mappings).ok

HasUnresolvable(constructor) ==
    \E k \in 1..Len(constructor.arguments) : Unresolvable(constructor.arguments[k])

C12_ErrorAndNoFragment ==
    (pc # "call" /\ \E i \in 1..Len(constructors) : HasUnresolvable(constructors[i]))
        => /\ ~result.ok
           /\ DOMAIN result = {"ok", "err"}
           /\ \E i \in 1..Len(constructors) :
                \E k \in 1..Len(constructors[i].arguments) :
                    /\ Unresolvable(constructors[i].arguments[k])
                    /\ result.err = constructors[i].arguments[k]

C12_Witness ==
    /\ pc = "returned"
    /\ Len(constructors) = 2
    /\ constructors[1].arguments # <<>>
    /\ ~HasUnresolvable(constructors[1])
    /\ HasUnresolvable(constructors[2])

(***************************************************************************)
(* C13: for MyObject with base BaseClass, one constructor with public      *)
(* arguments (i8, i16) and base arguments (i64, *mut QObject), and the     *)
(* extra initializer `initializer`, the public header and the start of the *)
(* private initializer list are the texts of the example.                  *)
(*   C13_AsClaimed takes the spellings std::int8_t, std::int16_t and       *)
(*   std::move; C13_Example takes ::std::int8_t, ::std::int16_t and        *)
(*   ::std::move, each qualified from the global namespace.                *)
(***************************************************************************)
IsExample ==
    /\ pc # "call"
    /\ qobject = [ident |-> "MyObject", namespace_internals |-> "rust",
                  base_class |-> "BaseClass"]
    /\ constructors = ExampleAllArguments
    /\ member_initializers = ExampleInitializers

ExampleTexts(std) ==
    IsExample =>
        /\ result.ok
        /\ Len(result.val.methods) = 1
        /\ Len(result.val.private_methods) = 1
        /\ result.val.methods[1].header =
             <<"explicit", "MyObject", "(", std \o "int8_t", "arg0", ",",
               std \o "int16_t", "arg1", ")", ";">>
        /\ IsPrefix(<<"BaseClass", "(",
                      std \o "move", "(", "args.base.arg0", ")", ",",
                      std \o "move", "(", "args.base.arg1", ")", ")">>,
                    Body(result.val.private_methods[1].source))

C13_AsClaimed == ExampleTexts("std::")

C13_Example == ExampleTexts("::std::")

C13_Witness == IsExample /\ pc = "returned" /\ result.ok

(***************************************************************************)
(* C20: whenever generate succeeds, with or without declared constructors, *)
(* the members, metaobjects, forward_declares and deconstructors buckets   *)
(* of its result are empty.                                                *)
(***************************************************************************)
C20_OnlyMethodBuckets ==
    (pc # "call" /\ result.ok) =>
        /\ result.val.members = <<>>
        /\ result.val.metaobjects = <<>>
        /\ result.val.forward_declares = <<>>
        /\ result.val.deconstructors = <<>>
        /\ DOMAIN result.val = {"forward_declares", "members", "metaobjects",
                                "methods", "private_methods", "deconstructors"}
        /\ result.val.methods # <<>>

C20_Witness ==
    /\ pc = "returned"
    /\ result.ok
    /\ Len(result.val.methods) >= 2
    /\ Len(result.val.private_methods) >= 2

(***************************************************************************)
(* Vocabulary of the properties of get_cpp_params.                         *)
(***************************************************************************)
\* a receiver: `self` without a type, or a parameter that binds the name self
IsReceiver(input) ==
    \/ input.kind = "Receiver"
    \/ input.kind = "Typed" /\ input.pat = "Ident" /\ input.ident = "self"

\* a parameter whose pattern is not a single bound name
IsPattern(input) == input.kind = "Typed" /\ input.pat # "Ident"

\* the parameters of a signature that are not a receiver, as declared
NonReceivers(sig) == SelectSeq(sig, LAMBDA input : ~IsReceiver(input))

PatternPositions(sig) == {k \in 1..Len(sig) : IsPattern(sig[k])}

\* the positions of the named parameters whose type the table does not resolve
UnresolvedPositions(sig, table) ==
    {k \in 1..Len(sig) :
        /\ ~IsReceiver(sig[k])
        /\ ~IsPattern(sig[k])
        /\ ~syn_type_to_cpp_type(sig[k].ty, table).ok}

Returned == pc = "returned" /\ cpp_params # NoResult

C15_AsClaimed ==
    (Returned /\ PatternPositions(method) # {}) => cpp_params = Err(UnknownPattern)

(***************************************************************************)
(* C15: whenever some parameter has a pattern that is not a single bound   *)
(* name, get_cpp_params returns an error and no parameter list; the error  *)
(* is the unsupported-pattern error unless a named parameter declared      *)
(* before the first such pattern has a type that does not resolve, and     *)
(* then it is the unresolved-type error of the first of those.             *)
(***************************************************************************)
C15_FirstError ==
    (Returned /\ PatternPositions(method) # {}) =>
        LET first == Min(PatternPositions(method))
            earlier == {k \in UnresolvedPositions(method, type_names) : k < first}
        IN  /\ ~cpp_params.ok
            /\ "val" \notin DOMAIN cpp_params
            /\ earlier = {} => cpp_params.err = UnknownPattern
            /\ earlier # {} => cpp_params.err = method[Min(earlier)].ty

C15_Witness ==
    /\ Returned
    /\ Len(method) >= 2
    /\ ~IsReceiver(method[1])
    /\ PatternPositions(method) = {Len(method)}
    /\ cpp_params = Err(UnknownPattern)

(***************************************************************************)
(* C16 as claimed: every named type get_cpp_params returns is named by its *)
(* position, arg0, arg1, ..., and no declared name appears in the result.  *)
(***************************************************************************)
C16_AsClaimed ==
    (Returned /\ cpp_params.ok) =>
        /\ [k \in 1..Len(cpp_params.val) |-> cpp_params.val[k].ident]
              = Positional("", Len(cpp_params.val))
        /\ \A k \in 1..Len(cpp_params.val) : cpp_params.val[k].ident \notin Idents

(***************************************************************************)
(* C16: every named type get_cpp_params returns carries the name its       *)
(* parameter declares in the signature; no name is made from a position.   *)
(***************************************************************************)
C16_DeclaredNames ==
    (Returned /\ cpp_params.ok) =>
        LET kept == NonReceivers(method)
        IN  /\ Len(cpp_params.val) = Len(kept)
            /\ \A k \in 1..Len(kept) : cpp_params.val[k].ident = kept[k].ident

C16_Witness ==
    /\ Returned
    /\ cpp_params.ok
    /\ Len(cpp_params.val) = 2
    /\ cpp_params.val[1].ident = "y"
    /\ cpp_params.val[2].ident = "x"

(***************************************************************************)
(* Vocabulary of the properties of GeneratedCppBlocks::from.               *)
(***************************************************************************)
Assembled == pc = "returned" /\ cpp_blocks # NoResult

\* what the generation of each structured object gives when it is done alone
Alone ==
    [k \in 1..Len(Structured) |->
        GeneratedCppQObject_from(Structured[k], parser.type_names)]

\* the structured objects whose generation fails
Failing == {k \in 1..Len(Structured) : ~Alone[k].ok}

ExternResult ==
    externcxxqt_generate(parser.cxx_qt_data.extern_cxxqt_blocks, parser.type_names)

OutputFields == {"forward_declares", "includes", "cxx_file_stem", "qobjects", "extern_cxx_qt"}

(***************************************************************************)
(* C17: GeneratedCppBlocks::from returns a complete output value or an     *)
(* error and nothing else: when structuring fails it returns that error;   *)
(* when the generation of an object fails it returns the error of the      *)
(* first such object; when the generation of the extern blocks fails it    *)
(* returns that error; and an error comes with no output value, so no      *)
(* bundle of an object that succeeded is delivered with it.                *)
(***************************************************************************)
C17_AllOrNothing ==
    Assembled =>
        LET structures == parser.cxx_qt_data.structuring
        IN  /\ cpp_blocks.ok => DOMAIN cpp_blocks.val = OutputFields
            /\ ~cpp_blocks.ok => DOMAIN cpp_blocks = {"ok", "err"}
            /\ ~structures.ok => cpp_blocks = structures
            /\ (structures.ok /\ Failing # {}) => cpp_blocks = Alone[Min(Failing)]
            /\ (structures.ok /\ Failing = {} /\ ~ExternResult.ok) =>
                  cpp_blocks = ExternResult
            /\ cpp_blocks.ok => (structures.ok /\ Failing = {} /\ ExternResult.ok)

C17_Witness ==
    /\ Assembled
    /\ parser.cxx_qt_data.structuring.ok
    /\ Len(Structured) = 2
    /\ Failing = {2}
    /\ Alone[1].val.blocks.methods # <<>>
    /\ ~cpp_blocks.ok

(***************************************************************************)
(* C18: when GeneratedCppBlocks::from succeeds, its output holds one       *)
(* bundle for each object structuring produced, in the same order; its     *)
(* forward declarations are those of the free namespaces in input order    *)
(* followed by those of the free enums in input order; and its stem is the *)
(* parser's stem.                                                          *)
(***************************************************************************)
C18_Output ==
    (Assembled /\ cpp_blocks.ok) =>
        LET data == parser.cxx_qt_data
            out == cpp_blocks.val
        IN  /\ Len(out.qobjects) = Len(Structured)
            /\ \A k \in 1..Len(Structured) :
                  /\ out.qobjects[k].ident = Structured[k].qobject.ident
                  /\ Ok(out.qobjects[k]) = Alone[k]
            /\ out.forward_declares =
                  [k \in 1..Len(data.qnamespaces) |->
                      qnamespace_generate(data.qnamespaces[k]).declaration]
                  \o [k \in 1..Len(data.qenums) |->
                      qenum_generate_declaration(data.qenums[k]).declaration]
            /\ out.cxx_file_stem = parser.cxx_file_stem

C18_Witness ==
    /\ Assembled
    /\ cpp_blocks.ok
    /\ Len(cpp_blocks.val.qobjects) = 2
    /\ cpp_blocks.val.qobjects[1].ident # cpp_blocks.val.qobjects[2].ident
    /\ Structured # parser.cxx_qt_data.qobjects
    /\ parser.cxx_qt_data.qnamespaces # <<>>
    /\ parser.cxx_qt_data.qenums # <<>>
    /\ parser.cxx_file_stem = "my_object"

(***************************************************************************)
(* C19: however the generations of the objects of a model are ordered or   *)
(* interleaved against the same type names, the generation of each object  *)
(* ends with the bundle that generating this object alone gives, and a     *)
(* generation that has run through all its constructors holds the blocks   *)
(* of that bundle.                                                         *)
(***************************************************************************)
C19_Independent ==
    \A o \in 1..Len(tasks) :
        /\ tasks[o].state = "done" => tasks[o].result = Alone[o]
        /\ (tasks[o].state = "running"
            /\ tasks[o].index = Len(Structured[o].constructors)) =>
              Bundle(o, Ok(tasks[o].generated)) = Alone[o]

C19_Witness ==
    /\ Len(tasks) = 2
    /\ Structured[1] # Structured[2]
    /\ tasks[1].state = "running"
    /\ tasks[1].index = 1
    /\ Len(Structured[1].constructors) = 2
    /\ tasks[2].state = "done"
    /\ tasks[2].result.ok
    /\ Len(tasks[2].result.val.blocks.private_methods) = 2

(***************************************************************************)
(* C21: the owner-pointer default constructor that calls createRs is       *)
(* emitted if and only if the constructor list is empty.  With at least    *)
(* one declared constructor no fragment mentions createRs or the parameter *)
(* parent, and a constructor without public arguments is generated as      *)
(* `explicit ClassName();` delegating through routeArguments{i}.           *)
(***************************************************************************)
Mentions(blocks, tok) ==
    \E fragment \in Range(blocks.methods) \cup Range(blocks.private_methods) :
        tok \in Names(fragment)

C21_DefaultOnlyWhenEmpty ==
    (pc # "call" /\ result.ok) =>
        LET blocks == result.val
        IN  /\ Mentions(blocks, "createRs") <=> constructors = <<>>
            /\ Mentions(blocks, "parent") <=> constructors = <<>>
            /\ constructors = <<>> =>
                  blocks.methods[1].header =
                     <<"explicit", qobject.ident, "(", "QObject*", "parent", "=",
                       "nullptr", ")", ";">>
            /\ \A i \in 1..Len(constructors) :
                  constructors[i].arguments = <<>> =>
                     /\ blocks.methods[i].header =
                           <<"explicit", qobject.ident, "(", ")", ";">>
                     /\ Find(blocks.methods[i].source,
                             <<":", qobject.ident, "(", "::", qobject.namespace_internals,
                               "::", "routeArguments" \o ToString(i - 1), "(", ")", ")">>) > 0

C21_Witness ==
    /\ pc = "returned"
    /\ result.ok
    /\ constructors = ExampleMultipleConstructors
    /\ member_initializers # <<>>

(***************************************************************************)
(* C26: generate resolves only the types of the public arguments.  The     *)
(* types of the base, new and initialize arguments never reach the         *)
(* resolver: a type there that does not resolve does not make generate     *)
(* fail, and the result is the one for the same constructors with the new  *)
(* and initialize arguments removed and every base argument replaced by    *)
(* another type, so that of the three lists only the length of the base    *)
(* arguments counts.                                                       *)
(***************************************************************************)
\* the constructor with only the length of its base arguments kept
Reduced(constructor) ==
    [arguments |-> constructor.arguments,
     base_arguments |-> [k \in 1..Len(constructor.base_arguments) |-> "i32"],
     new_arguments |-> <<>>,
     initialize_arguments |-> <<>>]

Routed(constructor) ==
    constructor.base_arguments \o constructor.new_arguments
        \o constructor.initialize_arguments

C26_OnlyPublicResolved ==
    pc # "call" =>
        /\ result = generate(qobject, [i \in 1..Len(constructors) |-> Reduced(constructors[i])],
                             member_initializers, cxx_mappings)
        /\ ~result.ok =>
              \E i \in 1..Len(constructors) : HasUnresolvable(constructors[i])
        /\ (\A i \in 1..Len(constructors) : ~HasUnresolvable(constructors[i])) => result.ok

C26_Witness ==
    /\ pc = "returned"
    /\ result.ok
    /\ Len(constructors) = 1
    /\ constructors[1].arguments # <<>>
    /\ Len(constructors[1].base_arguments) = 2
    /\ constructors[1].new_arguments # <<>>
    /\ constructors[1].initialize_arguments # <<>>
    /\ \E k \in 1..Len(Routed(constructors[1])) : Unresolvable(Routed(constructors[1])[k])

(***************************************************************************)
(* C27: with an empty constructor list generate always succeeds, whatever  *)
(* the descriptor, the initializer snippets and the type-name table hold;  *)
(* the table is not consulted, so the result is the same under every       *)
(* table.                                                                  *)
(***************************************************************************)
C27_EmptyNeverFails ==
    (pc # "call" /\ constructors = <<>>) =>
        /\ result.ok
        /\ DOMAIN result = {"ok", "val"}
        /\ \A table \in CxxMappings :
              result = generate(qobject, constructors, member_initializers, table)

C27_Witness ==
    /\ pc = "returned"
    /\ constructors = <<>>
    /\ cxx_mappings = [ty \in {} |-> ""]
    /\ qobject.ident = "Other"
    /\ member_initializers = ExampleInitializers
    /\ result.ok

(***************************************************************************)
(* C28: when several public arguments of the declared constructors have    *)
(* types that do not resolve, the error generate returns is that of the    *)
(* first of them in scan order, lowest constructor index and then lowest   *)
(* argument position; the constructors after the failing one are not       *)
(* processed, so the loop stops at its index with the fragments of the     *)
(* constructors before it only.                                            *)
(***************************************************************************)
\* the <<constructor, argument>> positions whose type does not resolve
FailingArguments(cs, table) ==
    UNION { { <<i, k>> : k \in { j \in 1..Len(cs[i].arguments) :
                                   ~syn_type_to_cpp_type(cs[i].arguments[j], table).ok } } :
            i \in 1..Len(cs) }

FirstInScanOrder(positions) ==
    CHOOSE p \in positions :
        \A q \in positions : p[1] < q[1] \/ (p[1] = q[1] /\ p[2] <= q[2])

C28_FirstFailingArgument ==
    \A o \in 1..Len(tasks) :
        LET cs == Structured[o].constructors
            failing == FailingArguments(cs, parser.type_names)
        IN  (tasks[o].state = "done" /\ failing # {}) =>
               LET first == FirstInScanOrder(failing)
                   error == Err(cs[first[1]].arguments[first[2]])
               IN  /\ tasks[o].result = error
                   /\ generate(Structured[o].qobject, cs, <<>>, parser.type_names) = error
                   /\ tasks[o].index = first[1] - 1
                   /\ Len(tasks[o].generated.methods) = first[1] - 1
                   /\ Len(tasks[o].generated.private_methods) = first[1] - 1

C28_Witness ==
    /\ Len(tasks) = 1
    /\ tasks[1].state = "done"
    /\ Len(Structured[1].constructors) = 2
    /\ Structured[1].constructors[1].arguments = <<"T">>
    /\ Structured[1].constructors[2].arguments = <<"U">>
    /\ tasks[1].result = Err("T")

(***************************************************************************)
(* C29: get_cpp_params drops every typed parameter that binds the name     *)
(* self, wherever it stands in the signature, and every untyped receiver.  *)
(* The type of a dropped parameter is not resolved: the result is the one  *)
(* for the signature without the dropped parameters, and an error comes    *)
(* only from a pattern that is not a single name or from the type of a     *)
(* parameter that is kept.  The pattern is checked before the name: a      *)
(* typed parameter whose pattern is not a single name always makes the     *)
(* call fail.                                                              *)
(***************************************************************************)
C29_SelfDropped ==
    Returned =>
        /\ cpp_params = get_cpp_params(NonReceivers(method), type_names)
        /\ cpp_params.ok =>
              /\ Len(cpp_params.val) = Len(NonReceivers(method))
              /\ \A k \in 1..Len(cpp_params.val) : cpp_params.val[k].ident # "self"
        /\ ~cpp_params.ok =>
              \/ PatternPositions(method) # {}
              \/ UnresolvedPositions(method, type_names) # {}
        /\ PatternPositions(method) # {} => ~cpp_params.ok

C29_Witness ==
    /\ Returned
    /\ cpp_params.ok
    /\ Len(method) = 3
    /\ method[1] = Receiver
    /\ method[2] = Typed("Ident", "x", "i32")
    /\ method[3] = Typed("Ident", "self", "T")
    /\ ~syn_type_to_cpp_type("T", type_names).ok
    /\ Len(cpp_params.val) = 1

(***************************************************************************)
(* Vocabulary of the properties of QtBuild.                                *)
(***************************************************************************)
Built == pc \in {"returned", "panicked"}

\* the candidate names in the order the claim gives
ClaimedOrder == <<"qmake6", "qmake-qt5", "qmake">>

Verified(name) == verify_candidate(name, environment)

\* a candidate the search passes over: missing, or of another major version
Skipped(name) ==
    /\ ~Verified(name).ok
    /\ Verified(name).err.kind \in {"QtMissing", "QtVersionMajorDoesNotMatch"}

\* the positions of the candidates that verify
Verifying == {k \in 1..Len(ClaimedOrder) : Verified(ClaimedOrder[k]).ok}

\* the positions of the candidates that end the search
Deciding == {k \in 1..Len(ClaimedOrder) : ~Skipped(ClaimedOrder[k])}

(***************************************************************************)
(* C22 as claimed: with QMAKE unset, QtBuild::new returns the first of     *)
(* qmake6, qmake-qt5, qmake that verifies, and returns                     *)
(* QtVersionMajorDoesNotMatch only if no candidate verified.               *)
(***************************************************************************)
C22_AsClaimed ==
    (Built /\ ~environment.QMAKE.set) =>
        /\ Verifying # {} =>
              /\ qtbuild.ok
              /\ qtbuild.val.qmake_executable = ClaimedOrder[Min(Verifying)]
        /\ (~qtbuild.ok /\ qtbuild.err.kind = "QtVersionMajorDoesNotMatch") =>
              Verifying = {}

(***************************************************************************)
(* C22: with QMAKE unset, QtBuild::new runs qmake6, qmake-qt5, qmake in    *)
(* that order up to the first candidate that is neither missing nor of a   *)
(* major version other than QT_VERSION_MAJOR.  If that candidate verifies  *)
(* it is the one returned; if it fails in another way the call returns its *)
(* error.  When every candidate is skipped the call returns                *)
(* QtVersionMajorDoesNotMatch if the last candidate does not match and     *)
(* QtMissing otherwise; QtVersionMajorDoesNotMatch is returned only if no  *)
(* candidate verified.                                                     *)
(***************************************************************************)
C22_FirstVerified ==
    (Built /\ ~environment.QMAKE.set) =>
        LET last == ClaimedOrder[Len(ClaimedOrder)]
        IN  /\ Deciding # {} =>
                  LET k == Min(Deciding)
                  IN  /\ executed = SubSeq(ClaimedOrder, 1, k)
                      /\ Verified(ClaimedOrder[k]).ok =>
                            /\ qtbuild.ok
                            /\ qtbuild.val.qmake_executable = ClaimedOrder[k]
                            /\ qtbuild.val.version = Verified(ClaimedOrder[k]).val[2]
                      /\ ~Verified(ClaimedOrder[k]).ok =>
                            qtbuild = Verified(ClaimedOrder[k])
            /\ Deciding = {} =>
                  /\ executed = ClaimedOrder
                  /\ qtbuild = IF Verified(last).err.kind = "QtVersionMajorDoesNotMatch"
                               THEN Verified(last)
                               ELSE Err(QtMissing)
            /\ (~qtbuild.ok /\ qtbuild.err.kind = "QtVersionMajorDoesNotMatch") =>
                  Verifying = {}

C22_Witness ==
    /\ Built
    /\ ~environment.QMAKE.set
    /\ environment.commands["qmake6"] = NotFound
    /\ ~Verified("qmake-qt5").ok
    /\ Verified("qmake-qt5").err.kind = "QtVersionMajorDoesNotMatch"
    /\ executed = ClaimedOrder
    /\ qtbuild.ok
    /\ qtbuild.val.qmake_executable = "qmake"

(***************************************************************************)
(* C23: with QMAKE set, QtBuild::new verifies only the executable QMAKE    *)
(* names.  When it verifies, it is the executable recorded; when it does   *)
(* not, the call returns QMakeSetQtMissing holding the value of QMAKE and  *)
(* the cause; in both cases no candidate name of the search path is run.   *)
(***************************************************************************)
C23_OnlyQmake ==
    (Built /\ environment.QMAKE.set) =>
        LET named == ToStr(Trim(environment.QMAKE.value))
        IN  /\ executed = <<named>>
            /\ Elements(executed) \cap Elements(ClaimedOrder) = {}
            /\ Verified(named).ok =>
                  /\ qtbuild.ok
                  /\ qtbuild.val.qmake_executable = named
            /\ ~Verified(named).ok =>
                  qtbuild = Err(QMakeSetQtMissing(ToStr(environment.QMAKE.value),
                                                  Verified(named).err))

C23_Witness ==
    /\ Built
    /\ environment.QMAKE = SetTo(<<" ", QmakePath, "\n">>)
    /\ environment.commands[QmakePath] = Denied
    /\ Verified("qmake6").ok
    /\ ~qtbuild.ok
    /\ qtbuild.err.kind = "QMakeSetQtMissing"
    /\ qtbuild.err.error = QmakeFailed

(***************************************************************************)
(* Vocabulary of C24: what QT_VERSION_MAJOR holds.                         *)
(***************************************************************************)
VersionMajor ==
    IF environment.QT_VERSION_MAJOR.set
    THEN parse_u32(ToStr(Trim(environment.QT_VERSION_MAJOR.value)))
    ELSE Err("unset")

\* the error of the executable itself, out of the wrapping QMAKE adds
Cause == IF qtbuild.err.kind = "QMakeSetQtMissing" THEN qtbuild.err.error ELSE qtbuild.err

(***************************************************************************)
(* C24 as claimed: when QtBuild::new returns Ok and QT_VERSION_MAJOR       *)
(* parses as an integer, the major version returned is that integer; an    *)
(* empty QT_VERSION_MAJOR is treated as unset; a value that is not empty   *)
(* and not an integer makes the call fail with QtVersionMajorInvalid.      *)
(***************************************************************************)
C24_AsClaimed ==
    (Built /\ calls = NoCalls) =>
        /\ (qtbuild.ok /\ VersionMajor.ok) => qtbuild.val.version.major = VersionMajor.val
        /\ environment.QT_VERSION_MAJOR = SetTo(<<>>) =>
              qtbuild = QtBuild_new(qt_modules,
                           [environment EXCEPT !.QT_VERSION_MAJOR = Unset]).result
        /\ (environment.QT_VERSION_MAJOR.set /\ environment.QT_VERSION_MAJOR.value # <<>>
            /\ ~VersionMajor.ok) =>
              /\ ~qtbuild.ok
              /\ qtbuild.err.kind = "QtVersionMajorInvalid"

(***************************************************************************)
(* C24: when QtBuild::new returns Ok and QT_VERSION_MAJOR parses as an     *)
(* integer, the major version returned is that integer.  A                 *)
(* QT_VERSION_MAJOR that is empty or only white space is treated as unset. *)
(* Any other value that is not an integer makes the call fail: with        *)
(* QtVersionMajorInvalid, inside QMakeSetQtMissing when QMAKE is set, once *)
(* a qmake executable has run successfully, and with the error of the      *)
(* executables (QtMissing, QmakeFailed) when none has.                     *)
(***************************************************************************)
C24_VersionMajor ==
    (Built /\ calls = NoCalls) =>
        /\ (qtbuild.ok /\ VersionMajor.ok) => qtbuild.val.version.major = VersionMajor.val
        /\ (~VersionMajor.ok /\ VersionMajor.err = "Empty") =>
              qtbuild = QtBuild_new(qt_modules,
                           [environment EXCEPT !.QT_VERSION_MAJOR = Unset]).result
        /\ (~VersionMajor.ok /\ VersionMajor.err = "InvalidDigit") =>
              LET ran == \E k \in 1..Len(executed) :
                            /\ environment.commands[executed[k]].io = "Ok"
                            /\ environment.commands[executed[k]].success
              IN  /\ ~qtbuild.ok
                  /\ environment.QMAKE.set <=> qtbuild.err.kind = "QMakeSetQtMissing"
                  /\ ran => Cause = QtVersionMajorInvalid(
                                       ToStr(environment.QT_VERSION_MAJOR.value))
                  /\ ~ran => Cause \in {QtMissing, QmakeFailed}

C24_Witness ==
    /\ Built
    /\ calls = NoCalls
    /\ environment.QT_VERSION_MAJOR = SetTo(<<" ", "5">>)
    /\ environment.commands["qmake6"] = Exited(TRUE, <<"6.5.0", "\n">>)
    /\ executed = <<"qmake6", "qmake-qt5">>
    /\ qtbuild.ok
    /\ qtbuild.val.version.major = 5

=============================================================================
